---------------------------- MODULE Spec2Model ----------------------------
(***************************************************************************)
(* A model of the CV optimizer's text pipeline: the text sanitizers, the   *)
(* heuristic line classifiers, the pdf-lib layout loops, the structuring   *)
(* hint (parseWithAI) and the optimize route's fallback.                   *)
(*                                                                         *)
(* Text is a sequence of UTF-16 code units (integers), as a JavaScript     *)
(* string is; a document is a sequence of lines.                           *)
(***************************************************************************)
EXTENDS Integers, Sequences, FiniteSets, Bags, TLC

VARIABLES
    \* --- sanitizeText applied once and twice (pure function harness)
    sanBackend, sanIn, sanOnce, sanTwice, sanPc,
    \* --- the pdf-lib layout loops (generatePDF, createStyledPdf) fed a line
    \*     stream: the cursor, the page count, the index of the next line
    \*     (createStyledPdf tests i === 0 and i === 1), the record just laid
    \*     out and the DrawBlocks it produced
    layBackend, y, pages, lineIdx, laySrc, blocks,
    \* --- a heuristic classifier's loop over the lines of a text: which
    \*     classifier, the lines (text.split('\n')), the index of the next
    \*     line, and the loop's flags and output so far
    clsBackend, clsLines, clsIdx, clsSt,
    \* --- POST /api/generate-pdf-ai: where the handler is, the request's
    \*     optimizedText, what the model call does, the StructuredCV's
    \*     sections, the response status (0: none yet). generatePDF's
    \*     cursor, pages and blocks are y, pages and blocks above, lineIdx
    \*     the index of the next section.
    postPc, optimizedText, aiReply, structuredCV, postStatus,
    \* --- POST /api/optimize: where the handler is, the request (its body
    \*     and whether the body has been read), whether OPENAI_API_KEY is
    \*     set, what the model call does, the response, and how many times
    \*     the handler has called the AI service
    optPc, optRequest, bodyUsed, apiKeySet, optAi, optResponse, aiCalls,
    \* --- the match score of optimizeCVRuleBased (pure function harness):
    \*     a job description, two CV texts, and the keyword results for
    \*     each CV text once computed
    scoreJob, scoreCvA, scoreCvB, scoreA, scoreB, scorePc,
    \* --- POST /api/generate-pdf: where the handler is, the request, the
    \*     index of the next change in modifyOriginalPdf's loop, the PDF
    \*     bytes as modified so far, the count of replacements, and the
    \*     document of the response
    modPc, modRequest, modIdx, modifiedPdfString, replacementsMade, modResponse,
    \* --- optimizeCVRuleBased: where the function is, its arguments, the
    \*     sections parseCVSections found, the index of the next section,
    \*     the CV text as rewritten so far, the changes pushed so far, the
    \*     section and the result of the last optimizeSection call, and the
    \*     returned OptimizationResult
    rbPc, rbRequest, rbSections, rbIdx, optimizedCV, rbChanges, rbLast, rbResult,
    \* --- two invocations of one renderer running interleaved: which
    \*     renderer, the lines of the two documents, and for each
    \*     invocation the index of its next record and its local state
    conBackend, conDocs, conInv,
    \* --- the optimizer page: the component's state (step, cvFile, cvText,
    \*     cvData, jobDescription, result, error, isLoading) and the fetch
    \*     calls of its handlers that have not yet resumed
    wizard, calls

sanVars == <<sanBackend, sanIn, sanOnce, sanTwice, sanPc>>
layVars == <<layBackend, y, pages, lineIdx, laySrc, blocks>>

clsVars == <<clsBackend, clsLines, clsIdx, clsSt>>

postVars == <<postPc, optimizedText, aiReply, structuredCV, postStatus>>

optVars == <<optPc, optRequest, bodyUsed, apiKeySet, optAi, optResponse, aiCalls>>

scoreVars == <<scoreJob, scoreCvA, scoreCvB, scoreA, scoreB, scorePc>>

modVars == <<modPc, modRequest, modIdx, modifiedPdfString, replacementsMade, modResponse>>

rbVars == <<rbPc, rbRequest, rbSections, rbIdx, optimizedCV, rbChanges, rbLast, rbResult>>

conVars == <<conBackend, conDocs, conInv>>

wzVars == <<wizard, calls>>

vars == <<sanVars, layVars, clsVars, postVars, optVars, scoreVars, modVars, rbVars, conVars, wzVars>>

\* What each specification leaves alone: the variables of the others.
sanOthers == <<layVars, clsVars, postVars, optVars, scoreVars, modVars, rbVars, conVars, wzVars>>
layOthers == <<sanVars, clsVars, postVars, optVars, scoreVars, modVars, rbVars, conVars, wzVars>>
clsOthers == <<sanVars, layVars, postVars, optVars, scoreVars, modVars, rbVars, conVars, wzVars>>
postOthers == <<sanVars, clsVars, optVars, scoreVars, modVars, rbVars, conVars, wzVars>>
scoreOthers == <<sanVars, layVars, clsVars, postVars, optVars, modVars, rbVars, conVars, wzVars>>
optOthers == <<sanVars, layVars, clsVars, postVars, scoreVars, modVars, rbVars, conVars, wzVars>>
modOthers == <<sanVars, layVars, clsVars, postVars, optVars, scoreVars, rbVars, conVars, wzVars>>
rbOthers == <<sanVars, layVars, clsVars, postVars, optVars, scoreVars, modVars, conVars, wzVars>>
conOthers == <<sanVars, layVars, clsVars, postVars, optVars, scoreVars, modVars, rbVars, wzVars>>
wzOthers == <<sanVars, layVars, clsVars, postVars, optVars, scoreVars, modVars, rbVars, conVars>>

SanIdle ==
    /\ sanBackend = "none"
    /\ sanIn = <<>>
    /\ sanOnce = <<>>
    /\ sanTwice = <<>>
    /\ sanPc = "idle"

LayIdle ==
    /\ layBackend = "none"
    /\ y = 0
    /\ pages = 0
    /\ lineIdx = 0
    /\ laySrc = <<>>
    /\ blocks = <<>>

ClsIdle ==
    /\ clsBackend = "none"
    /\ clsLines = <<>>
    /\ clsIdx = 0
    /\ clsSt = <<>>

PostIdle ==
    /\ postPc = "idle"
    /\ optimizedText = <<>>
    /\ aiReply = <<>>
    /\ structuredCV = <<>>
    /\ postStatus = 0

OptIdle ==
    /\ optPc = "idle"
    /\ optRequest = <<>>
    /\ bodyUsed = FALSE
    /\ apiKeySet = FALSE
    /\ optAi = "none"
    /\ optResponse = <<>>
    /\ aiCalls = 0

ScoreIdle ==
    /\ scoreJob = <<>>
    /\ scoreCvA = <<>>
    /\ scoreCvB = <<>>
    /\ scoreA = <<>>
    /\ scoreB = <<>>
    /\ scorePc = "idle"

ModIdle ==
    /\ modPc = "idle"
    /\ modRequest = <<>>
    /\ modIdx = 0
    /\ modifiedPdfString = <<>>
    /\ replacementsMade = 0
    /\ modResponse = <<>>

RbIdle ==
    /\ rbPc = "idle"
    /\ rbRequest = <<>>
    /\ rbSections = <<>>
    /\ rbIdx = 0
    /\ optimizedCV = <<>>
    /\ rbChanges = <<>>
    /\ rbLast = <<>>
    /\ rbResult = <<>>

ConIdle ==
    /\ conBackend = "none"
    /\ conDocs = <<>>
    /\ conInv = <<>>

WzIdle ==
    /\ wizard = <<>>
    /\ calls = <<>>

(***************************************************************************)
(* String helpers (String.prototype.* and RegExp, as the sources use them) *)
(***************************************************************************)

\* The concatenation of the strings f[lo], ..., f[hi] (halving, so that a
\* long text does not nest deeply).
RECURSIVE ConcatRange(_, _, _)
ConcatRange(f, lo, hi) ==
    IF lo > hi THEN <<>>
    ELSE IF lo = hi THEN f[lo]
    ELSE LET mid == (lo + hi) \div 2
         IN  ConcatRange(f, lo, mid) \o ConcatRange(f, mid + 1, hi)

\* The concatenation of a sequence of strings.
Concat(ss) == ConcatRange(ss, 1, Len(ss))

\* s.replace(/[clsSt]/g, rep): every code unit of the class becomes rep.
ReplaceClass(s, cls, rep) ==
    Concat([i \in 1..Len(s) |-> IF s[i] \in cls THEN rep ELSE <<s[i]>>])

\* The set of code units of a string.
Chars(s) == {s[i] : i \in 1..Len(s)}

(***************************************************************************)
(* Text Sanitizer                                                          *)
(***************************************************************************)

TypoSingleQuotes == {8216, 8217}                \* U+2018 U+2019
TypoDoubleQuotes == {8220, 8221}                \* U+201C U+201D
\* the decorative bullet glyphs: U+25B8 25BA 25C6 25C7 25A0 25A1 25CF 25CB
DecorativeBullets == {9656, 9658, 9670, 9671, 9632, 9633, 9679, 9675}
TypoDashes == {8211, 8212}                      \* U+2013 U+2014 (en and em dash)
CheckMarks == {10003, 10004, 9745}              \* U+2713 U+2714 U+2611
CrossMarks == {10007, 10008, 9744}              \* U+2717 U+2718 U+2610

\* /[^\x20-\x7E]/ : what the pdf-lib sanitizer strips.
InAsciiPrintable(c) == 32 <= c /\ c <= 126

\* /[^\x20-\x7E\xA0-\xFF\u2022]/ : what the pdfkit sanitizer strips.
InPdfkitKept(c) == InAsciiPrintable(c) \/ (160 <= c /\ c <= 255) \/ c = 8226

\* A variant of the last pdf-lib replace whose range ends one too far
\* (/[^\x20-\x7F]/): DEL survives.
StripNonAsciiOffByOne(s) ==
    LET keep(c) == 32 <= c /\ c <= 127 IN SelectSeq(s, keep)

\* .replace(/[^\x20-\x7E]/g, '')
StripNonAscii(s) == SelectSeq(s, InAsciiPrintable)

\* .replace(/[^\x20-\x7E\xA0-\xFF\u2022]/g, '')
StripPdfkit(s) == SelectSeq(s, InPdfkitKept)

\* A variant of the pdfkit ellipsis step that writes the three periods
\* with non-breaking spaces between them.
ReplaceEllipsisSpaced(s) == ReplaceClass(s, {8230}, <<46, 160, 46, 160, 46>>)

\* .replace(/[\u2026]/g, '...') of the pdfkit sanitizer
ReplaceEllipsisPdfkit(s) == ReplaceClass(s, {8230}, <<46, 46, 46>>)

\* generate-pdf-ai (pdf-lib): sanitizeText
sanitizeText(text) ==
    LET s1 == ReplaceClass(text, TypoSingleQuotes, <<39>>)
        s2 == ReplaceClass(s1, TypoDoubleQuotes, <<34>>)
        s3 == ReplaceClass(s2, DecorativeBullets \cup {8226}, <<45>>)
        s4 == ReplaceClass(s3, TypoDashes, <<45>>)
        s5 == ReplaceClass(s4, {160}, <<32>>)
        s6 == ReplaceClass(s5, {8230}, <<46, 46, 46>>)
        s7 == ReplaceClass(s6, {183}, <<45>>)
        s8 == ReplaceClass(s7, CheckMarks, <<91, 120, 93>>)
        s9 == ReplaceClass(s8, CrossMarks, <<91, 32, 93>>)
    IN  StripNonAscii(s9)

\* generate-pdf (pdfkit): sanitizeText
sanitizeTextPdfkit(text) ==
    LET s1 == ReplaceClass(text, TypoSingleQuotes, <<39>>)
        s2 == ReplaceClass(s1, TypoDoubleQuotes, <<34>>)
        s3 == ReplaceClass(s2, DecorativeBullets, <<8226>>)
        s4 == ReplaceClass(s3, TypoDashes, <<45>>)
        s5 == ReplaceClass(s4, {160}, <<32>>)
        s6 == ReplaceEllipsisPdfkit(s5)
        s7 == ReplaceClass(s6, {183}, <<8226>>)
        s8 == ReplaceClass(s7, CheckMarks, <<91, 120, 93>>)
        s9 == ReplaceClass(s8, CrossMarks, <<91, 32, 93>>)
    IN  StripPdfkit(s9)

SanitizeWith(backend, text) ==
    IF backend = "pdflib" THEN sanitizeText(text) ELSE sanitizeTextPdfkit(text)


(***************************************************************************)
(* More string helpers                                                     *)
(***************************************************************************)

\* n copies of the string w.
Rep(w, n) == [i \in 1..(n * Len(w)) |-> w[((i - 1) % Len(w)) + 1]]

\* s.substring(0, n)
Substring0(s, n) == SubSeq(s, 1, IF Len(s) < n THEN Len(s) ELSE n)

\* What String.prototype.trim and the RegExp class \s take for white space
\* (tab, LF, VT, FF, CR, space, NBSP, LS, PS, BOM).
WhiteSpace == {9, 10, 11, 12, 13, 32, 160, 8232, 8233, 65279}

RECURSIVE TrimStart(_)
TrimStart(s) ==
    IF s # <<>> /\ Head(s) \in WhiteSpace THEN TrimStart(Tail(s)) ELSE s

RECURSIVE TrimEnd(_)
TrimEnd(s) ==
    IF s # <<>> /\ s[Len(s)] \in WhiteSpace
    THEN TrimEnd(SubSeq(s, 1, Len(s) - 1)) ELSE s

\* s.trim()
Trim(s) == TrimEnd(TrimStart(s))

\* s.split(sep) for a one-character separator: the pieces between the
\* separators, the empty ones included ("".split(" ") is [""]).
Split(s, sep) ==
    LET at == {i \in 1..Len(s) : s[i] = sep}
        n == Cardinality(at)
        \* the position of the k-th separator; 0 and Len(s) + 1 bracket them
        pos(k) == IF k = 0 THEN 0
                  ELSE IF k = n + 1 THEN Len(s) + 1
                  ELSE CHOOSE i \in at : Cardinality({j \in at : j <= i}) = k
    IN  [k \in 1..(n + 1) |-> SubSeq(s, pos(k - 1) + 1, pos(k) - 1)]

\* s.toUpperCase() on ASCII text (the texts of the model that are upper-cased
\* are ASCII).
ToUpperChar(c) == IF 97 <= c /\ c <= 122 THEN c - 32 ELSE c
ToUpperCase(s) == [i \in 1..Len(s) |-> ToUpperChar(s[i])]

\* s.toLowerCase() on ASCII text.
ToLowerChar(c) == IF 65 <= c /\ c <= 90 THEN c + 32 ELSE c
ToLowerCase(s) == [i \in 1..Len(s) |-> ToLowerChar(s[i])]

(***************************************************************************)
(* Page geometry of generatePDF and of createStyledPdf (US Letter, the     *)
(* same numbers in both) and the text measure                              *)
(***************************************************************************)

pageWidth == 612
pageHeight == 792
margin == 50
contentWidth == pageWidth - margin * 2

\* The absent field of a structuring-hint record (section.content read from
\* a record without it is undefined): no code unit is negative.
Undefined == <<-1>>

\* Helvetica advance widths in 1/1000 em (the standard AFM numbers) of the
\* characters of the model's texts; font.widthOfTextAtSize(text, size) is
\* their sum times size / 1000.
GlyphWidth(c) ==
    CASE c \in {32, 46, 44, 91, 93} -> 278
      [] c = 45 -> 333
      [] c = 64 -> 1015
      [] c \in {105, 108} -> 222
      [] c = 87 -> 944
      [] c = 120 -> 500
      [] OTHER -> 556

RECURSIVE WidthRange(_, _, _)
WidthRange(text, lo, hi) ==
    IF lo > hi THEN 0
    ELSE IF lo = hi THEN GlyphWidth(text[lo])
    ELSE LET mid == (lo + hi) \div 2
         IN  WidthRange(text, lo, mid) + WidthRange(text, mid + 1, hi)

TextWidth1000(text) == WidthRange(text, 1, Len(text))

\* font.widthOfTextAtSize(testLine, fontSize) > effectiveWidth
WiderThan(text, fontSize, effectiveWidth) ==
    TextWidth1000(text) * fontSize > effectiveWidth * 1000

(***************************************************************************)
(* The texts the layout loops are fed                                      *)
(***************************************************************************)

T_name == <<74, 97, 110, 101, 32, 68, 111, 101>>               \* "Jane Doe"
T_contact == <<106, 97, 110, 101, 64, 120, 46, 99, 111, 109>>          \* "jane@x.com"
T_header == <<69, 88, 80, 69, 82, 73, 69, 78, 67, 69>>           \* "EXPERIENCE"
T_title == <<83, 101, 110, 105, 111, 114, 32, 69, 110, 103, 105, 110, 101, 101, 114, 32, 45, 32, 65, 99, 109, 101, 32, 67, 111, 114, 112>>
T_dates == <<50, 48, 50, 48, 32, 45, 32, 80, 114, 101, 115, 101, 110, 116>>        \* "2020 - Present"
T_short == <<66, 117, 105, 108, 116, 32, 115, 121, 115, 116, 101, 109, 115>>         \* "Built systems"
\* 12 words of 9 W: three measured lines at 10 pt (five words fit 512 pt)
T_wrap == Rep(<<87, 87, 87, 87, 87, 87, 87, 87, 87, 32>>, 11) \o <<87, 87, 87, 87, 87, 87, 87, 87, 87>>
\* one word wider than the content width
T_longWord == Rep(<<97>>, 120)
\* "Caf<e-acute> <en dash> <ellipsis> <check mark>"
T_symbols == <<67, 97, 102, 233, 32, 8211, 32, 8230, 32, 10003>>
\* CJK only: empty once sanitized
T_stripped == <<20013, 25991>>

Sec(type, content, secondary) ==
    [type |-> type, content |-> content, secondary |-> secondary]

\* The section records the stream draws from: every case of the switch, an
\* unknown type, wrapped, unbreakable, sanitized and emptied contents.
LaySections ==
    { Sec("name", T_name, <<>>),
      Sec("contact", T_contact, <<>>),
      Sec("section_header", T_header, <<>>),
      Sec("job_title", T_title, T_dates),
      Sec("job_details", T_short, T_name),
      Sec("bullet", T_short, <<>>),
      Sec("bullet", T_wrap, <<>>),
      Sec("bullet", T_stripped, <<>>),
      Sec("skill_group", T_short, <<>>),
      Sec("text", T_wrap, <<>>),
      Sec("text", T_longWord, <<>>),
      Sec("text", T_symbols, <<>>),
      Sec("text", <<>>, <<>>),
      Sec("summary", T_short, <<>>) }

\* A contact line of 91 characters and a dated title line of 92
L_longContact == Rep(<<97>>, 80) \o <<32, 106, 97, 110, 101, 64, 120, 46, 99, 111, 109>>
L_longTitle == Rep(<<69, 110, 103, 105, 110, 101, 101, 114, 32>>, 9) \o <<50, 48, 49, 57, 32, 45, 32, 50, 48, 50, 49>> 
\* a bullet of 229 characters: three estimated lines
L_bullet == <<45, 32>> \o Rep(<<97, 97, 97, 97, 97, 97, 97, 97, 97, 32>>, 22) \o <<97, 97, 97, 97, 97, 97, 97, 97, 97>>
L_dash == <<45>>

\* The lines createStyledPdf's stream draws from.
StyledLines ==
    { <<>>,
      T_name,
      T_contact,
      L_longContact,
      T_header,
      T_title \o <<32>> \o T_dates,
      L_longTitle,
      L_bullet,
      L_dash,
      T_short,
      T_longWord,
      T_symbols }

\* The texts of the section records.
KnownTexts ==
    {sec.content : sec \in LaySections} \cup {sec.secondary : sec \in LaySections}

(***************************************************************************)
(* generatePDF (generate-pdf-ai): the layout of one section record         *)
(***************************************************************************)

\* The greedy, measured word wrap of drawText: the loop over the words and
\* the final push.
RECURSIVE WrapWords(_, _, _, _)
WrapWords(words, currentLine, fontSize, effectiveWidth) ==
    IF words = <<>> THEN (IF currentLine # <<>> THEN <<currentLine>> ELSE <<>>)
    ELSE LET word == Head(words)
             testLine == IF currentLine # <<>>
                         THEN currentLine \o <<32>> \o word ELSE word
         IN  IF WiderThan(testLine, fontSize, effectiveWidth) /\ currentLine # <<>>
             THEN <<currentLine>>
                      \o WrapWords(Tail(words), word, fontSize, effectiveWidth)
             ELSE WrapWords(Tail(words), testLine, fontSize, effectiveWidth)

\* A variant of addNewPageIfNeeded that compares against the page's edge
\* instead of the bottom margin.
addNewPageAtEdge(st, requiredSpace) ==
    IF st.y - requiredSpace < 0
    THEN [st EXCEPT !.y = pageHeight - margin, !.pages = st.pages + 1]
    ELSE st

\* addNewPageIfNeeded(requiredSpace), on the layout state st = [y, pages,
\* blocks, raised].
addNewPageIfNeeded(st, requiredSpace) ==
    IF st.y - requiredSpace < margin
    THEN [st EXCEPT !.y = pageHeight - margin, !.pages = st.pages + 1]
    ELSE st

\* page.drawText(text, {y, size}): one DrawBlock on the current page at the
\* cursor.
DrawBlock(st, text, size) ==
    [st EXCEPT !.blocks = Append(st.blocks,
        [page |-> st.pages, y |-> st.y, text |-> text, size |-> size])]

\* A cursor that moves up the page instead.
MoveUp(st, dy) == [st EXCEPT !.y = st.y + dy]

\* y -= dy
MoveDown(st, dy) == [st EXCEPT !.y = st.y - dy]

\* The second loop of drawText: a page check, a DrawBlock and an advance per
\* wrapped line.
RECURSIVE DrawLines(_, _, _)
DrawLines(st, lines, fontSize) ==
    IF lines = <<>> THEN st
    ELSE DrawLines(
             MoveDown(DrawBlock(addNewPageIfNeeded(st, fontSize + 4),
                                Head(lines), fontSize),
                      fontSize + 4),
             Tail(lines), fontSize)

\* sanitizeText of the section texts, computed once.
SanitizeMemo == [t \in KnownTexts |-> sanitizeText(t)]

Sanitized(text) ==
    IF text \in KnownTexts THEN SanitizeMemo[text] ELSE sanitizeText(text)

\* The first loop of drawText: the lines a text is wrapped into.
WrapLines(text, fontSize, effectiveWidth) ==
    WrapWords(Split(Sanitized(text), 32), <<>>, fontSize, effectiveWidth)

\* The wrapped lines of the section texts at the two widths generatePDF
\* uses (10 pt), computed once.
WrapMemo ==
    [t \in KnownTexts, w \in {contentWidth, contentWidth - 16} |->
        WrapLines(t, 10, w)]

drawTextLines(text, fontSize, effectiveWidth) ==
    IF /\ fontSize = 10
       /\ text \in KnownTexts
       /\ effectiveWidth \in {contentWidth, contentWidth - 16}
    THEN WrapMemo[text, effectiveWidth]
    ELSE WrapLines(text, fontSize, effectiveWidth)

\* drawText(text, x, fontSize, font, color, maxWidth); sanitizeText(text)
\* raises a TypeError when text is undefined.
drawText(st, text, fontSize, effectiveWidth) ==
    IF text = Undefined THEN [st EXCEPT !.raised = TRUE]
    ELSE DrawLines(st, drawTextLines(text, fontSize, effectiveWidth), fontSize)

\* One line drawn whole with an optional secondary text on the same y:
\* the name, contact, section_header, job_title and job_details cases.
DrawWhole(st, section, size, withSecondary) ==
    IF section.content = Undefined THEN [st EXCEPT !.raised = TRUE]
    ELSE LET st1 == DrawBlock(st, Sanitized(section.content), size)
         IN  IF withSecondary /\ section.secondary # <<>>
                              /\ section.secondary # Undefined
             THEN DrawBlock(st1, Sanitized(section.secondary), 10)
             ELSE st1

\* The body of generatePDF's loop for one section (the switch).
generatePDFSection(st, section) ==
    CASE section.type = "name" ->
           LET d == DrawWhole(addNewPageIfNeeded(st, 30), section, 24, FALSE)
           IN  IF d.raised THEN d ELSE MoveDown(d, 32)
      [] section.type = "contact" ->
           LET d == DrawWhole(addNewPageIfNeeded(st, 16), section, 10, FALSE)
           IN  IF d.raised THEN d ELSE MoveDown(d, 24)
      [] section.type = "section_header" ->
           LET d == DrawWhole(addNewPageIfNeeded(MoveDown(st, 12), 30),
                              section, 12, FALSE)
           IN  IF d.raised THEN d ELSE MoveDown(MoveDown(d, 4), 12)
      [] section.type = "job_title" ->
           LET d == DrawWhole(addNewPageIfNeeded(st, 20), section, 11, TRUE)
           IN  IF d.raised THEN d ELSE MoveDown(d, 16)
      [] section.type = "job_details" ->
           LET d == DrawWhole(addNewPageIfNeeded(st, 16), section, 10, TRUE)
           IN  IF d.raised THEN d ELSE MoveDown(d, 14)
      [] section.type = "bullet" ->
           drawText(DrawBlock(addNewPageIfNeeded(st, 16), <<8226>>, 10),
                    section.content, 10, contentWidth - 16)
      [] section.type = "skill_group" ->
           LET d == drawText(addNewPageIfNeeded(st, 16), section.content,
                             10, contentWidth)
           IN  IF d.raised THEN d ELSE MoveDown(d, 4)
      [] OTHER ->
           drawText(addNewPageIfNeeded(st, 16), section.content,
                    10, contentWidth)

(***************************************************************************)
(* createStyledPdf (generate-pdf): the layout of one line                  *)
(***************************************************************************)

\* The inline sanitizer of createStyledPdf.
sanitizeStyled(text) ==
    LET s1 == ReplaceClass(text, TypoSingleQuotes, <<39>>)
        s2 == ReplaceClass(s1, TypoDoubleQuotes, <<34>>)
        s3 == ReplaceClass(s2, {8226, 183}, <<45>>)
        s4 == ReplaceClass(s3, TypoDashes, <<45>>)
        keep(c) == 0 <= c /\ c <= 127
    IN  SelectSeq(s4, keep)

\* s.includes(sub)
Includes(s, sub) ==
    \E i \in 0..(Len(s) - Len(sub)) : SubSeq(s, i + 1, i + Len(sub)) = sub

\* s starts with the word w, letter case ignored (/^(w)/i).
StartsWithCI(s, w) ==
    Len(s) >= Len(w) /\ ToLowerCase(SubSeq(s, 1, Len(w))) = w

IsDigit(c) == 48 <= c /\ c <= 57

\* /\d{n}/ : a run of n digits somewhere in s.
HasDigitRun(s, n) ==
    \E i \in 0..(Len(s) - n) : \A k \in 1..n : IsDigit(s[i + k])

\* The alternatives of createStyledPdf's sectionHeaders, /^(experience|
\* education|skills|summary|profile|projects|certifications?|languages?)/i.
\* The optional final s changes nothing in a prefix test.
StyledHeaderWords ==
    { <<101, 120, 112, 101, 114, 105, 101, 110, 99, 101>>, \* experience
      <<101, 100, 117, 99, 97, 116, 105, 111, 110>>, \* education
      <<115, 107, 105, 108, 108, 115>>, \* skills
      <<115, 117, 109, 109, 97, 114, 121>>, \* summary
      <<112, 114, 111, 102, 105, 108, 101>>, \* profile
      <<112, 114, 111, 106, 101, 99, 116, 115>>, \* projects
      <<99, 101, 114, 116, 105, 102, 105, 99, 97, 116, 105, 111, 110>>, \* certification
      <<108, 97, 110, 103, 117, 97, 103, 101>> } \* language

W_linkedin == <<108, 105, 110, 107, 101, 100, 105, 110>>

\* sectionHeaders.test(line)
IsStyledHeader(line) == \E w \in StyledHeaderWords : StartsWithCI(line, w)

\* line.includes('@') || /\+?\d{10,}/.test(line) || line.includes('linkedin')
IsStyledContact(line) ==
    Includes(line, <<64>>) \/ HasDigitRun(line, 10) \/ Includes(line, W_linkedin)

\* wrapText(text, maxWidth, font, fontSize): the greedy wrap on the
\* estimated width testLine.length * fontSize * 0.5.
RECURSIVE WrapEstimated(_, _, _, _)
WrapEstimated(words, currentLine, maxWidth, fontSize) ==
    IF words = <<>> THEN (IF currentLine # <<>> THEN <<currentLine>> ELSE <<>>)
    ELSE LET word == Head(words)
             testLine == IF currentLine # <<>>
                         THEN currentLine \o <<32>> \o word ELSE word
         IN  IF Len(testLine) * fontSize > 2 * maxWidth /\ currentLine # <<>>
             THEN <<currentLine>>
                      \o WrapEstimated(Tail(words), word, maxWidth, fontSize)
             ELSE WrapEstimated(Tail(words), testLine, maxWidth, fontSize)

wrapText(text, maxWidth, fontSize) ==
    LET lines == WrapEstimated(Split(text, 32), <<>>, maxWidth, fontSize)
    IN  IF Len(lines) > 0 THEN lines ELSE << <<>> >>

\* The page check createStyledPdf makes before a line (slack 20) and before
\* each wrapped line (slack 15).
StyledPageCheck(st, slack) ==
    IF st.y < margin + slack
    THEN [st EXCEPT !.y = pageHeight - margin, !.pages = st.pages + 1]
    ELSE st

\* line.replace(/^[-*]\s*/, '') of a line that starts with - or *
StripStyledMarker(line) == TrimStart(Tail(line))

\* The loop over the wrapped lines of a bullet (dash drawn before the first)
\* or of regular text.
RECURSIVE DrawStyledLines(_, _, _, _)
DrawStyledLines(st, wrappedLines, j, withDash) ==
    IF j > Len(wrappedLines) THEN st
    ELSE LET st1 == StyledPageCheck(st, 15)
             st2 == IF withDash /\ j = 1 THEN DrawBlock(st1, <<45>>, 10) ELSE st1
             st3 == MoveDown(DrawBlock(st2, wrappedLines[j], 10), 13)
         IN  DrawStyledLines(st3, wrappedLines, j + 1, withDash)

\* The branch createStyledPdf's loop takes for lines[i] (i counted from 0)
\* and the texts it draws there.
styledLinePlan(i, rawLine) ==
    LET line == Trim(rawLine)
        P(kind, texts) == [kind |-> kind, texts |-> texts]
    IN  IF line = <<>> THEN P("blank", <<>>)
        ELSE IF i = 0 /\ Len(line) < 40 THEN P("name", <<line>>)
        ELSE IF i = 1 /\ Len(line) < 60 THEN P("second", <<line>>)
        ELSE IF IsStyledContact(line) THEN P("contact", <<Substring0(line, 80)>>)
        ELSE IF IsStyledHeader(line) THEN P("header", <<ToUpperCase(line)>>)
        ELSE IF HasDigitRun(line, 4) /\ Len(line) < 100
             THEN P("title", <<Substring0(line, 85)>>)
        ELSE IF Head(line) \in {45, 42}
             THEN P("bullet",
                    wrapText(StripStyledMarker(line), contentWidth - 15, 10))
        ELSE P("text", wrapText(line, contentWidth, 10))

\* The plans of the lines of the stream, computed once.
StyledPlanMemo ==
    [i \in 0..2, raw \in StyledLines |-> styledLinePlan(i, sanitizeStyled(raw))]

\* The plan of line i of the text: sanitized, split, then lines[i].trim().
StyledPlanOf(i, raw) ==
    IF i \in 0..2 /\ raw \in StyledLines THEN StyledPlanMemo[i, raw]
    ELSE styledLinePlan(i, sanitizeStyled(raw))

\* The body of createStyledPdf's loop for one line: the cursor moves and the
\* drawText calls of the branch taken.
createStyledPdfLine(st, plan) ==
    LET st0 == StyledPageCheck(st, 20)
        t == plan.texts
    IN  CASE plan.kind = "blank" -> MoveDown(st, 8)
          [] plan.kind = "name" -> MoveDown(DrawBlock(st0, t[1], 20), 26)
          [] plan.kind = "second" -> MoveDown(DrawBlock(st0, t[1], 12), 18)
          [] plan.kind = "contact" -> MoveDown(DrawBlock(st0, t[1], 9), 14)
          [] plan.kind = "header" ->
               MoveDown(DrawBlock(MoveDown(st0, 6), t[1], 11), 16)
          [] plan.kind = "title" -> MoveDown(DrawBlock(st0, t[1], 10), 14)
          [] plan.kind = "bullet" -> DrawStyledLines(st0, t, 1, TRUE)
          [] OTHER -> DrawStyledLines(st0, t, 1, FALSE)

(***************************************************************************)
(* The heuristic line classifiers: fallbackParse (generate-pdf-ai),        *)
(* createDocx (generate-docx) and renderCV (generate-pdf-v2)               *)
(***************************************************************************)

\* The closed vocabulary of roles (CVSection.type), and "blank" for the
\* spacing paragraphs createDocx pushes.
Roles ==
    {"name", "contact", "section_header", "job_title", "job_details",
     "bullet", "skill_group", "text"}

\* One classified line: its role, the text displayed, the input line.
Classified(role, text, line) == [role |-> role, text |-> text, line |-> line]

\* A variant of push that puts the new element first.
PushFront(out, entry) == <<entry>> \o out

\* sections.push(...), children.push(...)
Push(out, entry) == Append(out, entry)

\* l.trim() is truthy
NonBlank(l) == Trim(l) # <<>>

\* The alternatives of sectionPattern, /^(SUMMARY|EXPERIENCE|EDUCATION|
\* SKILLS|PROJECTS|CERTIFICATIONS?|LANGUAGES?|PROFESSIONAL EXPERIENCE|
\* WORK HISTORY|TECHNICAL SKILLS|PROFILE|ABOUT)$/i, in lower case.
SectionPatternWords ==
    { <<115, 117, 109, 109, 97, 114, 121>>, \* summary
      <<101, 120, 112, 101, 114, 105, 101, 110, 99, 101>>, \* experience
      <<101, 100, 117, 99, 97, 116, 105, 111, 110>>, \* education
      <<115, 107, 105, 108, 108, 115>>, \* skills
      <<112, 114, 111, 106, 101, 99, 116, 115>>, \* projects
      <<99, 101, 114, 116, 105, 102, 105, 99, 97, 116, 105, 111, 110>>, \* certification
      <<99, 101, 114, 116, 105, 102, 105, 99, 97, 116, 105, 111, 110, 115>>, \* certifications
      <<108, 97, 110, 103, 117, 97, 103, 101>>, \* language
      <<108, 97, 110, 103, 117, 97, 103, 101, 115>>, \* languages
      <<112, 114, 111, 102, 101, 115, 115, 105, 111, 110, 97, 108, 32, 101, 120, 112, 101, 114, 105, 101, 110, 99, 101>>, \* professional experience
      <<119, 111, 114, 107, 32, 104, 105, 115, 116, 111, 114, 121>>, \* work history
      <<116, 101, 99, 104, 110, 105, 99, 97, 108, 32, 115, 107, 105, 108, 108, 115>>, \* technical skills
      <<112, 114, 111, 102, 105, 108, 101>>, \* profile
      <<97, 98, 111, 117, 116>> } \* about

\* sectionPattern.test(s): the whole of s is one alternative.
MatchesSectionPattern(s) == ToLowerCase(s) \in SectionPatternWords

\* fallbackParse's bulletPattern, /^[\s]*[-U+2022*]\s*/
FallbackBulletMarkers == {45, 8226, 42}

\* renderCV's bulletPattern adds U+25B8 and U+25BA.
RenderBulletMarkers == {45, 8226, 42, 9656, 9658}

\* bulletPattern.test(s)
MatchesBullet(s, markers) ==
    LET t == TrimStart(s) IN t # <<>> /\ t[1] \in markers

\* s.replace(bulletPattern, '')
StripBullet(s) == TrimStart(Tail(TrimStart(s)))

W_github == <<103, 105, 116, 104, 117, 98>>
W_dotcom == <<46, 99, 111, 109>>
W_present == <<112, 114, 101, 115, 101, 110, 116>>
W_current == <<99, 117, 114, 114, 101, 110, 116>>

\* s.toLowerCase().includes(w), /w/i
IncludesCI(s, w) == Includes(ToLowerCase(s), w)

\* /\+\d{10,}/ : a plus sign and ten digits
HasPlusDigits(s) ==
    \E p \in 1..(Len(s) - 10) :
        s[p] = 43 /\ \A k \in 1..10 : IsDigit(s[p + k])

\* renderCV's contactPattern, /@|linkedin|github|\+\d{10,}|\.com/i
MatchesContactPattern(s) ==
    \/ Includes(s, <<64>>)
    \/ IncludesCI(s, W_linkedin)
    \/ IncludesCI(s, W_github)
    \/ HasPlusDigits(s)
    \/ IncludesCI(s, W_dotcom)

\* \w
IsWordChar(c) ==
    \/ (48 <= c /\ c <= 57)
    \/ (65 <= c /\ c <= 90)
    \/ (97 <= c /\ c <= 122)
    \/ c = 95

\* \b between s[p] and s[p + 1]
WordBoundaryAt(s, p) ==
    (p >= 1 /\ IsWordChar(s[p])) # (p + 1 <= Len(s) /\ IsWordChar(s[p + 1]))

\* renderCV's datePattern,
\* /\b(19|20)\d{2}\b.*?(present|current|19|20)\d{0,2}/i : a year standing
\* as a word, and after it one of present, current, 19, 20.
MatchesDatePattern(s) ==
    \E p \in 0..(Len(s) - 4) :
        /\ WordBoundaryAt(s, p)
        /\ SubSeq(s, p + 1, p + 2) \in {<<49, 57>>, <<50, 48>>}
        /\ IsDigit(s[p + 3])
        /\ IsDigit(s[p + 4])
        /\ WordBoundaryAt(s, p + 4)
        /\ \E w \in {W_present, W_current, <<49, 57>>, <<50, 48>>} :
               IncludesCI(SubSeq(s, p + 5, Len(s)), w)

\* The state of a classifier loop: its flags and what it has pushed.
ClassifierStart ==
    [isFirstLine |-> TRUE, isSecondLine |-> FALSE, isContactLine |-> FALSE,
     lastWasSection |-> FALSE, currentSection |-> <<>>, out |-> <<>>]

\* push one classified line
Emit(st, role, text, line) ==
    [st EXCEPT !.out = Push(st.out, Classified(role, text, line))]

\* A variant of fallbackParse's loop body that tests the bullet marker
\* before the contact and the section header.
fallbackParseLineBulletFirst(st, line) ==
    LET trimmed == Trim(line)
    IN  IF trimmed = <<>> THEN st
        ELSE IF st.isFirstLine
        THEN [Emit(st, "name", trimmed, line) EXCEPT !.isFirstLine = FALSE]
        ELSE IF MatchesBullet(trimmed, FallbackBulletMarkers)
        THEN Emit(st, "bullet", StripBullet(trimmed), line)
        ELSE IF /\ Len(st.out) = 1
                /\ (Includes(trimmed, <<64>>) \/ Includes(trimmed, W_linkedin))
        THEN Emit(st, "contact", trimmed, line)
        ELSE IF MatchesSectionPattern(trimmed)
        THEN Emit(st, "section_header", ToUpperCase(trimmed), line)
        ELSE Emit(st, "text", trimmed, line)

\* fallbackParse: the loop body on one line that passed the filter
\* (isFirst is the flag isFirstLine of the state).
fallbackParseLine(st, line) ==
    LET trimmed == Trim(line)
    IN  IF trimmed = <<>> THEN st
        ELSE IF st.isFirstLine
        THEN [Emit(st, "name", trimmed, line) EXCEPT !.isFirstLine = FALSE]
        ELSE IF /\ Len(st.out) = 1
                /\ (Includes(trimmed, <<64>>) \/ Includes(trimmed, W_linkedin))
        THEN Emit(st, "contact", trimmed, line)
        ELSE IF MatchesSectionPattern(trimmed)
        THEN Emit(st, "section_header", ToUpperCase(trimmed), line)
        ELSE IF MatchesBullet(trimmed, FallbackBulletMarkers)
        THEN Emit(st, "bullet", StripBullet(trimmed), line)
        ELSE Emit(st, "text", trimmed, line)

RECURSIVE fallbackParseFrom(_, _, _)
fallbackParseFrom(st, lns, k) ==
    IF k > Len(lns) THEN st
    ELSE fallbackParseFrom(fallbackParseLine(st, lns[k]), lns, k + 1)

\* fallbackParse(cvText): the sections of the StructuredCV it returns
fallbackParse(cvText) ==
    LET lns == SelectSeq(Split(cvText, 10), NonBlank)
        st == fallbackParseFrom(ClassifierStart, lns, 1)
    IN  [k \in 1..Len(st.out) |->
            Sec(st.out[k].role, st.out[k].text, Undefined)]

\* createDocx's sectionHeaders, a prefix test: the one-word alternatives of
\* createStyledPdf's and three two-word ones with \s* between the words.
DocxHeaderPairs ==
    { <<<<119, 111, 114, 107>>, <<104, 105, 115, 116, 111, 114, 121>>>>,
      <<<<112, 114, 111, 102, 101, 115, 115, 105, 111, 110, 97, 108>>, <<101, 120, 112, 101, 114, 105, 101, 110, 99, 101>>>>,
      <<<<116, 101, 99, 104, 110, 105, 99, 97, 108>>, <<115, 107, 105, 108, 108, 115>>>> }

IsDocxHeader(s) ==
    \/ IsStyledHeader(s)
    \/ \E pr \in DocxHeaderPairs :
          /\ StartsWithCI(s, pr[1])
          /\ StartsWithCI(TrimStart(SubSeq(s, Len(pr[1]) + 1, Len(s))), pr[2])

\* /[-U+2013|]/
HasSeparator(s) == \E p \in 1..Len(s) : s[p] \in {45, 8211, 124}

\* /\d{4}\s*[-U+2013]\s*(present|\d{4})/i
HasDateRange(s) ==
    \E p \in 0..(Len(s) - 4) :
        /\ \A k \in 1..4 : IsDigit(s[p + k])
        /\ LET r1 == TrimStart(SubSeq(s, p + 5, Len(s)))
           IN  /\ r1 # <<>>
               /\ r1[1] \in {45, 8211}
               /\ LET r2 == TrimStart(Tail(r1))
                  IN  \/ StartsWithCI(r2, W_present)
                      \/ (Len(r2) >= 4 /\ \A k \in 1..4 : IsDigit(r2[k]))

\* A variant of createDocx that leaves the flags as they are.
DocxKeepFlags(st) == st

\* createDocx: isFirstLine = false; isSecondLine = false; once a line got
\* past the first two tests.
DocxResetFlags(st) ==
    [st EXCEPT !.isFirstLine = FALSE, !.isSecondLine = FALSE]

\* createDocx: the loop body on one line. An empty line and the space
\* before a section header are paragraphs with no text ("blank").
createDocxLine(st, line) ==
    LET trimmedLine == Trim(line)
    IN  IF trimmedLine = <<>>
        THEN Emit(st, "blank", <<>>, line)
        ELSE IF st.isFirstLine /\ Len(trimmedLine) < 50
        THEN [Emit(st, "name", trimmedLine, line)
                 EXCEPT !.isFirstLine = FALSE, !.isSecondLine = TRUE]
        ELSE IF st.isSecondLine /\ Len(trimmedLine) < 80
        THEN [Emit(st, "contact", trimmedLine, line)
                 EXCEPT !.isSecondLine = FALSE]
        ELSE LET s1 == DocxResetFlags(st)
             IN  IF \/ Includes(trimmedLine, <<64>>)
                    \/ HasDigitRun(trimmedLine, 10)
                    \/ IncludesCI(trimmedLine, W_linkedin)
                    \/ IncludesCI(trimmedLine, W_github)
                 THEN Emit(s1, "contact", trimmedLine, line)
                 ELSE IF IsDocxHeader(trimmedLine)
                 THEN [Emit(Emit(s1, "blank", <<>>, <<>>), "section_header",
                            ToUpperCase(trimmedLine), line)
                          EXCEPT !.lastWasSection = TRUE]
                 ELSE IF /\ HasDigitRun(trimmedLine, 4)
                         /\ Len(trimmedLine) < 120
                         /\ (HasSeparator(trimmedLine) \/ HasDateRange(trimmedLine))
                 THEN [Emit(s1, "job_title", trimmedLine, line)
                          EXCEPT !.lastWasSection = FALSE]
                 ELSE IF trimmedLine[1] \in {45, 42, 8226}
                 THEN [Emit(s1, "bullet", TrimStart(Tail(trimmedLine)), line)
                          EXCEPT !.lastWasSection = FALSE]
                 ELSE [Emit(s1, "text", trimmedLine, line)
                          EXCEPT !.lastWasSection = FALSE]

\* lines[i + 1] || ''
NextLineOf(lns, idx) == IF idx + 2 <= Len(lns) THEN lns[idx + 2] ELSE <<>>

ExperienceSections ==
    { <<69, 88, 80, 69, 82, 73, 69, 78, 67, 69>>,
      <<80, 82, 79, 70, 69, 83, 83, 73, 79, 78, 65, 76, 32, 69, 88, 80, 69, 82, 73, 69, 78, 67, 69>>,
      <<87, 79, 82, 75, 32, 72, 73, 83, 84, 79, 82, 89>> }

SkillsSections ==
    { <<83, 75, 73, 76, 76, 83>>,
      <<84, 69, 67, 72, 78, 73, 67, 65, 76, 32, 83, 75, 73, 76, 76, 83>> }

W_EDUCATION == <<69, 68, 85, 67, 65, 84, 73, 79, 78>>

\* A variant that also forgets the section the loop is in.
RenderForgetSection(st) ==
    [st EXCEPT !.isContactLine = FALSE, !.isFirstLine = FALSE,
               !.currentSection = <<>>]

\* renderCV: isContactLine = false; isFirstLine = false;
RenderResetFlags(st) ==
    [st EXCEPT !.isContactLine = FALSE, !.isFirstLine = FALSE]

\* renderCV: the loop body at index idx (from 0) of lines. An empty line
\* moves the cursor and draws nothing.
renderCVLine(st, lns, idx) ==
    LET raw == lns[idx + 1]
        line == Trim(raw)
        nextLine == NextLineOf(lns, idx)
    IN  IF line = <<>> THEN st
        ELSE IF st.isFirstLine /\ Len(line) < 50
        THEN [Emit(st, "name", line, raw)
                 EXCEPT !.isFirstLine = FALSE, !.isContactLine = TRUE]
        ELSE IF st.isContactLine /\ (MatchesContactPattern(line) \/ idx <= 3)
        THEN [Emit(st, "contact", sanitizeTextPdfkit(line), raw)
                 EXCEPT !.isContactLine =
                     IF ~MatchesContactPattern(nextLine) THEN FALSE ELSE @]
        ELSE LET s1 == RenderResetFlags(st)
                 shown == sanitizeTextPdfkit(line)
             IN  IF MatchesSectionPattern(line)
                 THEN [Emit(s1, "section_header", ToUpperCase(line), raw)
                          EXCEPT !.currentSection = ToUpperCase(line)]
                 ELSE IF MatchesDatePattern(line)
                 THEN Emit(s1, "job_title", shown, raw)
                 ELSE IF /\ ~MatchesBullet(line, RenderBulletMarkers)
                         /\ Len(line) < 80
                         /\ ~Includes(line, <<46>>)
                         /\ s1.currentSection \in ExperienceSections
                         /\ \/ MatchesDatePattern(nextLine)
                            \/ Includes(line, <<32, 45, 32>>)
                            \/ Includes(line, <<32, 124, 32>>)
                 THEN Emit(s1, "job_details", shown, raw)
                 ELSE IF MatchesBullet(line, RenderBulletMarkers)
                 THEN Emit(s1, "bullet",
                           sanitizeTextPdfkit(Trim(StripBullet(line))), raw)
                 ELSE IF s1.currentSection \in SkillsSections
                 THEN Emit(s1, "skill_group", shown, raw)
                 ELSE IF s1.currentSection = W_EDUCATION
                 THEN Emit(s1, "text", shown, raw)
                 ELSE Emit(s1, "text", shown, raw)

(***************************************************************************)
(* The rule-based optimizer (optimize route): keywords and match score     *)
(***************************************************************************)

\* extractKeywords.technicalPatterns
technicalPatterns ==
    << <<106, 97, 118, 97, 115, 99, 114, 105, 112, 116>>,  \* javascript
       <<116, 121, 112, 101, 115, 99, 114, 105, 112, 116>>,  \* typescript
       <<112, 121, 116, 104, 111, 110>>,  \* python
       <<106, 97, 118, 97>>,  \* java
       <<114, 101, 97, 99, 116>>,  \* react
       <<97, 110, 103, 117, 108, 97, 114>>,  \* angular
       <<118, 117, 101>>,  \* vue
       <<110, 111, 100, 101, 46, 106, 115>>,  \* node.js
       <<110, 111, 100, 101, 106, 115>>,  \* nodejs
       <<97, 119, 115>>,  \* aws
       <<97, 122, 117, 114, 101>>,  \* azure
       <<103, 99, 112>>,  \* gcp
       <<100, 111, 99, 107, 101, 114>>,  \* docker
       <<107, 117, 98, 101, 114, 110, 101, 116, 101, 115>>,  \* kubernetes
       <<115, 113, 108>>,  \* sql
       <<109, 111, 110, 103, 111, 100, 98>>,  \* mongodb
       <<112, 111, 115, 116, 103, 114, 101, 115, 113, 108>>,  \* postgresql
       <<109, 121, 115, 113, 108>>,  \* mysql
       <<103, 105, 116>>,  \* git
       <<99, 105, 47, 99, 100>>,  \* ci/cd
       <<97, 103, 105, 108, 101>>,  \* agile
       <<115, 99, 114, 117, 109>>,  \* scrum
       <<114, 101, 115, 116>>,  \* rest
       <<97, 112, 105>>,  \* api
       <<103, 114, 97, 112, 104, 113, 108>>,  \* graphql
       <<109, 105, 99, 114, 111, 115, 101, 114, 118, 105, 99, 101, 115>>,  \* microservices
       <<109, 97, 99, 104, 105, 110, 101, 32, 108, 101, 97, 114, 110, 105, 110, 103>>,  \* machine learning
       <<100, 97, 116, 97, 32, 97, 110, 97, 108, 121, 115, 105, 115>>,  \* data analysis
       <<116, 101, 115, 116, 105, 110, 103>>,  \* testing
       <<100, 101, 118, 111, 112, 115>>,  \* devops
       <<108, 105, 110, 117, 120>>,  \* linux
       <<99, 108, 111, 117, 100>>,  \* cloud
       <<104, 116, 109, 108>>,  \* html
       <<99, 115, 115>>,  \* css
       <<115, 97, 115, 115>>,  \* sass
       <<119, 101, 98, 112, 97, 99, 107>>,  \* webpack
       <<110, 101, 120, 116, 46, 106, 115>>,  \* next.js
       <<101, 120, 112, 114, 101, 115, 115>>,  \* express
       <<100, 106, 97, 110, 103, 111>>,  \* django
       <<102, 108, 97, 115, 107>>,  \* flask
       <<114, 101, 100, 105, 115>>,  \* redis
       <<101, 108, 97, 115, 116, 105, 99, 115, 101, 97, 114, 99, 104>>,  \* elasticsearch
       <<116, 101, 114, 114, 97, 102, 111, 114, 109>>,  \* terraform
       <<106, 101, 110, 107, 105, 110, 115>>,  \* jenkins
       <<103, 105, 116, 104, 117, 98>>,  \* github
       <<106, 105, 114, 97>> >>  \* jira

\* extractKeywords.actionPatterns
actionPatterns ==
    << <<108, 101, 97, 100, 101, 114, 115, 104, 105, 112>>,  \* leadership
       <<109, 97, 110, 97, 103, 101, 109, 101, 110, 116>>,  \* management
       <<99, 111, 109, 109, 117, 110, 105, 99, 97, 116, 105, 111, 110>>,  \* communication
       <<99, 111, 108, 108, 97, 98, 111, 114, 97, 116, 105, 111, 110>>,  \* collaboration
       <<112, 114, 111, 98, 108, 101, 109, 45, 115, 111, 108, 118, 105, 110, 103>>,  \* problem-solving
       <<97, 110, 97, 108, 121, 116, 105, 99, 97, 108>>,  \* analytical
       <<115, 116, 114, 97, 116, 101, 103, 105, 99>>,  \* strategic
       <<105, 110, 110, 111, 118, 97, 116, 105, 118, 101>>,  \* innovative
       <<109, 101, 110, 116, 111, 114, 105, 110, 103>>,  \* mentoring
       <<115, 116, 97, 107, 101, 104, 111, 108, 100, 101, 114>>,  \* stakeholder
       <<112, 114, 111, 106, 101, 99, 116, 32, 109, 97, 110, 97, 103, 101, 109, 101, 110, 116>>,  \* project management
       <<116, 101, 97, 109, 32, 108, 101, 97, 100>>,  \* team lead
       <<99, 114, 111, 115, 115, 45, 102, 117, 110, 99, 116, 105, 111, 110, 97, 108>> >>  \* cross-functional

\* extractKeywords(text): the patterns the text includes, in the order of
\* the two lists (no pattern is listed twice, so the Set changes nothing).
extractKeywords(text) ==
    LET found(p) == Includes(text, p)
    IN  SelectSeq(technicalPatterns \o actionPatterns, found)

\* cvKeywords.some(cvKw => cvKw.includes(kw) || kw.includes(cvKw))
SomeCvKeyword(cvKeywords, kw) ==
    \E k \in 1..Len(cvKeywords) :
        Includes(cvKeywords[k], kw) \/ Includes(kw, cvKeywords[k])

\* A variant of the filter that keeps the keywords with no match.
KeywordsUnmatched(jobKeywords, cvKeywords) ==
    LET miss(kw) == ~SomeCvKeyword(cvKeywords, kw)
    IN  SelectSeq(jobKeywords, miss)

\* jobKeywords.filter(kw => cvKeywords.some(...))
KeywordsMatched(jobKeywords, cvKeywords) ==
    LET hit(kw) == SomeCvKeyword(cvKeywords, kw)
    IN  SelectSeq(jobKeywords, hit)

\* jobKeywords.filter(kw => !cvKeywords.some(...))
KeywordsMissing(jobKeywords, cvKeywords) ==
    LET miss(kw) == ~SomeCvKeyword(cvKeywords, kw)
    IN  SelectSeq(jobKeywords, miss)

Min(m, n) == IF m < n THEN m ELSE n

Max(m, n) == IF m > n THEN m ELSE n

\* Math.round((m / n) * 100) for integers m >= 0 and n > 0: the nearest
\* integer, a half rounded up.
RoundPercent(m, n) == (200 * m + n) \div (2 * n)

\* matchScore: Math.min(matchScore + 10, 100)
ReturnedScore(matchScore) == Min(matchScore + 10, 100)

\* The keyword part of optimizeCVRuleBased(cvText, jobDescription): the
\* keyword lists and the score of the result.
RuleBasedKeywords(cvText, jobDescription) ==
    LET jobKeywords == extractKeywords(ToLowerCase(jobDescription))
        cvKeywords == extractKeywords(ToLowerCase(cvText))
        keywordsMatched == KeywordsMatched(jobKeywords, cvKeywords)
        keywordsMissing == KeywordsMissing(jobKeywords, cvKeywords)
        matchScore == RoundPercent(Len(keywordsMatched),
                                   Max(Len(jobKeywords), 1))
    IN  [ matchScore |-> ReturnedScore(matchScore),
          keywordsMatched |-> SubSeq(keywordsMatched, 1,
                                     Min(Len(keywordsMatched), 15)),
          keywordsMissing |-> SubSeq(keywordsMissing, 1,
                                     Min(Len(keywordsMissing), 10)) ]

(***************************************************************************)
(* Harness for the sanitizers: an input from a bounded set, sanitized      *)
(* once, then the result sanitized again.                                  *)
(***************************************************************************)

MaxSanLen == 2

\* Code units of every class the sanitizers tell apart: control, ASCII,
\* DEL, C1 control, Latin-1 (NBSP, middle dot, e-acute, y-diaeresis), each
\* replaced glyph family, CJK, a lone surrogate.
SanAlphabet ==
    { 9, 32, 39, 45, 46, 65, 91, 126, 127, 133, 160, 183, 233, 255,
      8216, 8221, 8211, 8226, 8230, 9656, 9675, 10003, 9744, 20013, 55357 }

RECURSIVE SeqsUpTo(_, _)
SeqsUpTo(S, n) ==
    IF n = 0 THEN {<<>>}
    ELSE LET shorter == SeqsUpTo(S, n - 1)
         IN  shorter \cup {Append(s, c) : s \in shorter, c \in S}

InitSanitize ==
    /\ sanBackend \in {"pdflib", "pdfkit"}
    /\ sanIn \in SeqsUpTo(SanAlphabet, MaxSanLen)
    /\ sanOnce = <<>>
    /\ sanTwice = <<>>
    /\ sanPc = "in"
    /\ LayIdle
    /\ ClsIdle
    /\ PostIdle
    /\ OptIdle
    /\ ScoreIdle
    /\ ModIdle
    /\ RbIdle
    /\ ConIdle
    /\ WzIdle

SanitizeOnce ==
    /\ sanPc = "in"
    /\ sanOnce' = SanitizeWith(sanBackend, sanIn)
    /\ sanPc' = "once"
    /\ UNCHANGED <<sanBackend, sanIn, sanTwice, sanOthers>>

SanitizeAgain ==
    /\ sanPc = "once"
    /\ sanTwice' = SanitizeWith(sanBackend, sanOnce)
    /\ sanPc' = "twice"
    /\ UNCHANGED <<sanBackend, sanIn, sanOnce, sanOthers>>

NextSanitize == SanitizeOnce \/ SanitizeAgain

SpecSanitize == InitSanitize /\ [][NextSanitize]_vars

(***************************************************************************)
(* The layout loops fed a stream of records: generatePDF one section       *)
(* record per step, createStyledPdf one line per step.                     *)
(***************************************************************************)

MaxPages == 1
MaxBlankDrop == 24

InitLayout ==
    /\ layBackend \in {"pdflib", "styled"}
    /\ y = pageHeight - margin
    /\ pages = 1
    /\ lineIdx = 0
    /\ laySrc = Sec("none", <<>>, <<>>)
    /\ blocks = <<>>
    /\ SanIdle
    /\ ClsIdle
    /\ PostIdle
    /\ OptIdle
    /\ ScoreIdle
    /\ ModIdle
    /\ RbIdle
    /\ ConIdle
    /\ WzIdle

\* generatePDF lays out the next section of cv.sections.
LayoutSection ==
    /\ layBackend = "pdflib"
    /\ pages <= MaxPages
    /\ \E section \in LaySections :
         LET st == generatePDFSection(
                       [y |-> y, pages |-> pages, blocks |-> <<>>,
                        raised |-> FALSE], section)
         IN  /\ y' = st.y
             /\ pages' = st.pages
             /\ blocks' = st.blocks
             /\ laySrc' = section
    /\ UNCHANGED <<layBackend, lineIdx, layOthers>>

\* createStyledPdf lays out the next line of the sanitized text.
LayoutStyledLine ==
    /\ layBackend = "styled"
    /\ pages <= MaxPages
    /\ \E raw \in StyledLines :
         LET plan == StyledPlanOf(lineIdx, raw)
             st == createStyledPdfLine(
                       [y |-> y, pages |-> pages, blocks |-> <<>>,
                        raised |-> FALSE], plan)
         IN  /\ plan.kind = "blank" => y > margin - MaxBlankDrop
             /\ y' = st.y
             /\ pages' = st.pages
             /\ blocks' = st.blocks
             /\ laySrc' = Sec("line", raw, <<>>)
    /\ lineIdx' = IF lineIdx < 2 THEN lineIdx + 1 ELSE lineIdx
    /\ UNCHANGED <<layBackend, layOthers>>

NextLayout == LayoutSection \/ LayoutStyledLine

SpecLayout == InitLayout /\ [][NextLayout]_vars

(***************************************************************************)
(* The classifiers run line by line over a text of a few lines             *)
(***************************************************************************)

MaxLines == 3

CL_long == <<83, 101, 97, 115, 111, 110, 101, 100, 32, 115, 111, 102, 116, 119, 97, 114, 101, 32, 101, 110, 103, 105, 110, 101, 101, 114, 32, 119, 105, 116, 104, 32, 116, 101, 110, 32, 121, 101, 97, 114, 115, 32, 111, 102, 32, 119, 111, 114, 107, 32, 111, 110, 32, 98, 97, 99, 107, 101, 110, 100, 32, 115, 121, 115, 116, 101, 109, 115>>
CL_title == <<65, 99, 109, 101, 32, 67, 111, 114, 112, 32, 45, 32, 69, 110, 103, 105, 110, 101, 101, 114, 32, 50, 48, 50, 48, 32, 45, 32, 80, 114, 101, 115, 101, 110, 116>>
CL_bullet == <<32, 32, 45, 32, 66, 117, 105, 108, 116, 32, 115, 121, 115, 116, 101, 109, 115>>

CL_both == <<45, 32, 106, 97, 110, 101, 64, 120, 46, 99, 111, 109>>
CL_skillsHeader == <<83, 107, 105, 108, 108, 115>>
CL_skills == <<80, 121, 116, 104, 111, 110, 44, 32, 74, 97, 118, 97, 44, 32, 83, 81, 76>>
CL_company == <<65, 99, 109, 101, 32, 67, 111, 114, 112>>
CL_education == <<69, 68, 85, 67, 65, 84, 73, 79, 78>>
CL_degree == <<66, 83, 99, 32, 67, 111, 109, 112, 117, 116, 101, 114, 32, 83, 99, 105, 101, 110, 99, 101, 44, 32, 77, 73, 84, 44, 32, 50, 48, 49, 54>>

\* Lines of every kind the classifiers tell apart: empty, a short name, a
\* first line too long for a name, an address, a section header, a dated
\* title, an indented bullet, a bullet holding an address.
ClsLineSet ==
    { <<>>, T_name, CL_long, T_contact, T_header, CL_title, CL_bullet,
      CL_both }

\* "Jane Doe\njane@x.com\nEXPERIENCE\nSenior Engineer - Acme Corp 2020 -
\* Present\n- Built systems\nEDUCATION\nBSc Computer Science, MIT, 2016",
\* split into lines.
Scenario7 ==
    << T_name, T_contact, T_header, T_title \o <<32>> \o T_dates,
       <<45, 32>> \o T_short, CL_education, CL_degree >>

\* Longer texts: a skills section, a company line before a dated line,
\* and a text of seven lines with two sections.
ClsTexts ==
    { <<T_name, CL_skillsHeader, CL_skills, CL_bullet>>,
      <<T_name, T_contact, T_header, CL_company, CL_title, CL_bullet>>,
      Scenario7 }

InitClassify ==
    /\ clsBackend \in {"fallbackParse", "createDocx", "renderCV"}
    /\ clsLines \in SeqsUpTo(ClsLineSet, MaxLines) \cup ClsTexts
    /\ clsIdx = 0
    /\ clsSt = ClassifierStart
    /\ SanIdle
    /\ LayIdle
    /\ PostIdle
    /\ OptIdle
    /\ ScoreIdle
    /\ ModIdle
    /\ RbIdle
    /\ ConIdle
    /\ WzIdle

\* fallbackParse: the filter and the loop body on the next line
FallbackParseStep ==
    /\ clsBackend = "fallbackParse"
    /\ clsIdx < Len(clsLines)
    /\ clsSt' = IF NonBlank(clsLines[clsIdx + 1])
              THEN fallbackParseLine(clsSt, clsLines[clsIdx + 1])
              ELSE clsSt
    /\ clsIdx' = clsIdx + 1
    /\ UNCHANGED <<clsBackend, clsLines, clsOthers>>

\* createDocx: the loop body on the next line
CreateDocxStep ==
    /\ clsBackend = "createDocx"
    /\ clsIdx < Len(clsLines)
    /\ clsSt' = createDocxLine(clsSt, clsLines[clsIdx + 1])
    /\ clsIdx' = clsIdx + 1
    /\ UNCHANGED <<clsBackend, clsLines, clsOthers>>

\* renderCV: the loop body at i = clsIdx
RenderCVStep ==
    /\ clsBackend = "renderCV"
    /\ clsIdx < Len(clsLines)
    /\ clsSt' = renderCVLine(clsSt, clsLines, clsIdx)
    /\ clsIdx' = clsIdx + 1
    /\ UNCHANGED <<clsBackend, clsLines, clsOthers>>

NextClassify == FallbackParseStep \/ CreateDocxStep \/ RenderCVStep

SpecClassify == InitClassify /\ [][NextClassify]_vars

(***************************************************************************)
(* POST /api/generate-pdf-ai: parseWithAI, then generatePDF                *)
(***************************************************************************)

\* A section record of the hint with no type key: section.type is
\* undefined and the switch takes its default case.
NoType == "undefined"

\* What JSON.parse makes of the message content: it throws when the text
\* is not JSON (wellFormed = FALSE); otherwise the value is null, a scalar
\* or an object, whose sections member is absent, null, a string or an
\* array of items.
JsonText(wellFormed, tag, member, items) ==
    [wellFormed |-> wellFormed, tag |-> tag, member |-> member,
     items |-> items]

\* '{}'
EmptyObject == JsonText(TRUE, "object", "absent", <<>>)

\* {"sections": [...]}
Hint(items) == JsonText(TRUE, "object", "array", items)

\* What openai.chat.completions.create does: it throws, it times out (the
\* client throws a timeout error), or it resolves to a response, whose
\* message content may be missing.
Reply(kind, hasContent, content) ==
    [kind |-> kind, hasContent |-> hasContent, content |-> content]

HintValid ==
    << Sec("name", T_name, Undefined),
       Sec("job_title", T_title, T_dates),
       Sec("bullet", T_short, Undefined) >>

AiReplies ==
    { Reply("throws", FALSE, EmptyObject),
      Reply("timeout", FALSE, EmptyObject),
      Reply("response", FALSE, EmptyObject),
      Reply("response", TRUE, JsonText(FALSE, "none", "absent", <<>>)),
      Reply("response", TRUE, JsonText(TRUE, "null", "absent", <<>>)),
      Reply("response", TRUE, JsonText(TRUE, "scalar", "absent", <<>>)),
      Reply("response", TRUE, EmptyObject),
      Reply("response", TRUE, JsonText(TRUE, "object", "null", <<>>)),
      Reply("response", TRUE, JsonText(TRUE, "object", "string", <<>>)),
      Reply("response", TRUE, Hint(<<>>)),
      Reply("response", TRUE, Hint(HintValid)),
      Reply("response", TRUE, Hint(<<Sec(NoType, T_name, Undefined)>>)),
      Reply("response", TRUE, Hint(<<Sec("summary", T_short, Undefined)>>)),
      Reply("response", TRUE,
            Hint(<<Sec("name", T_name, Undefined),
                   Sec("text", Undefined, Undefined)>>)) }

\* What a function call comes to: a value returned or an error thrown.
Return(sections) == [threw |-> FALSE, sections |-> sections]
Throw == [threw |-> TRUE, sections |-> <<>>]

\* parseWithAI: the try block.
ParseTry(cvText, reply) ==
    IF reply.kind # "response" THEN Throw
    ELSE LET content == IF reply.hasContent THEN reply.content
                        ELSE EmptyObject
         IN  IF ~content.wellFormed THEN Throw
             ELSE IF content.tag = "null" THEN Throw
             ELSE IF content.tag # "object" \/ content.member # "array"
             THEN Return(fallbackParse(cvText))
             ELSE Return(content.items)

\* A variant of the catch block that throws the error again.
ParseRethrow(r, cvText) == r

\* parseWithAI: the catch block.
ParseCatch(r, cvText) ==
    IF r.threw THEN Return(fallbackParse(cvText)) ELSE r

\* parseWithAI(cvText) when the model call does reply.
parseWithAI(cvText, reply) == ParseCatch(ParseTry(cvText, reply), cvText)

P_cv == T_name \o <<10>> \o T_contact \o <<10>> \o T_header \o <<10>> \o CL_bullet
P_gaps == T_name \o <<10, 10, 32, 32, 10>> \o T_longWord

\* The request texts: empty, only white space, one character, a few
\* lines, lines with empty ones between, one long unbreakable line.
PostTexts == { <<>>, <<32>>, <<120>>, P_cv, P_gaps, T_longWord }

InitPost ==
    /\ postPc = "request"
    /\ optimizedText \in PostTexts
    /\ aiReply \in AiReplies
    /\ structuredCV = <<>>
    /\ postStatus = 0
    /\ layBackend = "pdflib"
    /\ y = 0
    /\ pages = 0
    /\ lineIdx = 0
    /\ laySrc = Sec("none", <<>>, <<>>)
    /\ blocks = <<>>
    /\ SanIdle
    /\ ClsIdle
    /\ OptIdle
    /\ ScoreIdle
    /\ ModIdle
    /\ RbIdle
    /\ ConIdle
    /\ WzIdle

\* POST: the request body is read; an empty optimizedText is answered 400.
PostReceive ==
    /\ postPc = "request"
    /\ IF optimizedText = <<>>
       THEN postStatus' = 400 /\ postPc' = "done"
       ELSE postStatus' = postStatus /\ postPc' = "parse"
    /\ UNCHANGED <<optimizedText, aiReply, structuredCV, layVars, postOthers>>

\* POST: structuredCV = await parseWithAI(optimizedText); an error thrown
\* by it is caught by POST and answered 500.
ParseWithAI ==
    /\ postPc = "parse"
    /\ LET r == parseWithAI(optimizedText, aiReply)
       IN  IF r.threw
           THEN /\ postStatus' = 500
                /\ postPc' = "done"
                /\ structuredCV' = structuredCV
           ELSE /\ postStatus' = postStatus
                /\ postPc' = "generate"
                /\ structuredCV' = r.sections
    /\ UNCHANGED <<optimizedText, aiReply, layVars, postOthers>>

\* generatePDF: the document is created with its first page.
GeneratePDFStart ==
    /\ postPc = "generate"
    /\ pages' = 1
    /\ y' = pageHeight - margin
    /\ lineIdx' = 0
    /\ postPc' = "layout"
    /\ UNCHANGED <<layBackend, laySrc, blocks, optimizedText, aiReply,
                   structuredCV, postStatus, postOthers>>

\* generatePDF: one iteration of the loop over cv.sections; an error
\* raised in it is caught by POST and answered 500.
GeneratePDFSection ==
    /\ postPc = "layout"
    /\ lineIdx < Len(structuredCV)
    /\ LET section == structuredCV[lineIdx + 1]
           st == generatePDFSection(
                     [y |-> y, pages |-> pages, blocks |-> <<>>,
                      raised |-> FALSE], section)
       IN  /\ y' = st.y
           /\ pages' = st.pages
           /\ blocks' = st.blocks
           /\ laySrc' = section
           /\ IF st.raised
              THEN postStatus' = 500 /\ postPc' = "done"
              ELSE postStatus' = postStatus /\ postPc' = postPc
    /\ lineIdx' = lineIdx + 1
    /\ UNCHANGED <<layBackend, optimizedText, aiReply, structuredCV,
                   postOthers>>

\* generatePDF: pdfDoc.save(), and POST answers with the document.
GeneratePDFSave ==
    /\ postPc = "layout"
    /\ lineIdx = Len(structuredCV)
    /\ postStatus' = 200
    /\ postPc' = "done"
    /\ UNCHANGED <<optimizedText, aiReply, structuredCV, layVars, postOthers>>

NextPost ==
    \/ PostReceive
    \/ ParseWithAI
    \/ GeneratePDFStart
    \/ GeneratePDFSection
    \/ GeneratePDFSave

SpecPost == InitPost /\ [][NextPost]_vars

(***************************************************************************)
(* POST /api/optimize: the AI optimizer and the rule-based fallback        *)
(***************************************************************************)

\* A request: whether its body is JSON, and the cvText and jobDescription
\* members of the body.
Request(wellFormed, cvText, jobDescription) ==
    [wellFormed |-> wellFormed, cvText |-> cvText,
     jobDescription |-> jobDescription]

OptRequests ==
    { Request(w, c, j) : w \in BOOLEAN, c \in {<<>>, T_name, P_cv},
                         j \in {<<>>, T_short, T_header} }

\* What openai.chat.completions.create does in optimizeCVWithAI: it throws,
\* it resolves to a content that is not JSON, or to a JSON result.
OptAiOutcomes == {"throws", "not_json", "result"}

\* request.json(): the body of a request can be read once; reading it
\* again, or reading a body that is not JSON, throws.
RequestJson(req, used) ==
    IF used \/ ~req.wellFormed
    THEN [threw |-> TRUE, body |-> req]
    ELSE [threw |-> FALSE, body |-> req]

\* NextResponse.json(body, {status}): the status, the function whose
\* result is the body ("error" for an error body), the inputs it was
\* given, and the body's method tag ("none": the body has no method).
Response(status, by, cvText, jobDescription) ==
    [status |-> status, by |-> by, cvText |-> cvText,
     jobDescription |-> jobDescription, method |-> "none"]

\* A result returned without its method tag.
Untagged(result, method) == result

\* { ...result, method }
Tagged(result, method) == [result EXCEPT !.method = method]

ErrorResponse(status) == Response(status, "error", <<>>, <<>>)

InitOptimize ==
    /\ optPc = "request"
    /\ optRequest \in OptRequests
    /\ bodyUsed = FALSE
    /\ apiKeySet \in BOOLEAN
    /\ optAi \in OptAiOutcomes
    /\ optResponse = <<>>
    /\ aiCalls = 0
    /\ SanIdle
    /\ LayIdle
    /\ ClsIdle
    /\ PostIdle
    /\ ScoreIdle
    /\ ModIdle
    /\ RbIdle
    /\ ConIdle
    /\ WzIdle

\* POST: the try block up to the call of optimizeCVWithAI.
OptReadBody ==
    /\ optPc = "request"
    /\ LET r == RequestJson(optRequest, bodyUsed)
       IN  /\ bodyUsed' = TRUE
           /\ IF r.threw
              THEN optPc' = "catch" /\ optResponse' = optResponse
              ELSE IF r.body.cvText = <<>> \/ r.body.jobDescription = <<>>
              THEN /\ optPc' = "done"
                   /\ optResponse' = ErrorResponse(400)
              ELSE IF ~apiKeySet
              THEN /\ optPc' = "done"
                   /\ optResponse' =
                        Tagged(Response(200, "optimizeCVRuleBased",
                                        r.body.cvText, r.body.jobDescription),
                               "rule-based")
              ELSE optPc' = "ai" /\ optResponse' = optResponse
    /\ UNCHANGED <<optRequest, apiKeySet, optAi, aiCalls, optOthers>>

\* POST: result = await optimizeCVWithAI(...). The model call is outside
\* the function's own try, so its error reaches POST's catch; a content
\* that is not JSON is caught inside and answered by optimizeCVRuleBased.
OptCallAI ==
    /\ optPc = "ai"
    /\ IF optAi = "throws"
       THEN optPc' = "catch" /\ optResponse' = optResponse
       ELSE /\ optPc' = "done"
            /\ optResponse' =
                 Tagged(Response(200,
                                 IF optAi = "not_json" THEN "optimizeCVRuleBased"
                                 ELSE "optimizeCVWithAI",
                                 optRequest.cvText, optRequest.jobDescription),
                        "ai-powered")
    /\ aiCalls' = aiCalls + 1
    /\ UNCHANGED <<optRequest, bodyUsed, apiKeySet, optAi, optOthers>>

\* POST: the catch block, which reads the request body again.
OptCatch ==
    /\ optPc = "catch"
    /\ LET r == RequestJson(optRequest, bodyUsed)
       IN  /\ bodyUsed' = TRUE
           /\ optResponse' =
                IF r.threw THEN ErrorResponse(500)
                ELSE Response(200, "optimizeCVRuleBased",
                              r.body.cvText, r.body.jobDescription)
    /\ optPc' = "done"
    /\ UNCHANGED <<optRequest, apiKeySet, optAi, aiCalls, optOthers>>

NextOptimize == OptReadBody \/ OptCallAI \/ OptCatch

SpecOptimize == InitOptimize /\ [][NextOptimize]_vars

(***************************************************************************)
(* The match score computed for a job description and two CV texts         *)
(***************************************************************************)

\* Texts with none, one, two, three and four keywords, and keywords that
\* include one another (java in javascript, git in github).
ScoreTexts ==
    { <<72, 101, 108, 108, 111, 32, 119, 111, 114, 108, 100>>,
      <<80, 121, 116, 104, 111, 110>>,
      <<80, 121, 116, 104, 111, 110, 32, 97, 110, 100, 32, 83, 81, 76>>,
      <<74, 97, 118, 97, 44, 32, 80, 121, 116, 104, 111, 110, 44, 32, 83, 81, 76>>,
      <<74, 97, 118, 97, 83, 99, 114, 105, 112, 116>>,
      <<74, 97, 118, 97>>,
      <<71, 105, 116, 72, 117, 98, 32, 97, 110, 100, 32, 68, 111, 99, 107, 101, 114>>,
      <<80, 121, 116, 104, 111, 110, 32, 83, 81, 76, 32, 68, 111, 99, 107, 101, 114, 32, 65, 87, 83>> }

InitScore ==
    /\ scoreJob \in ScoreTexts
    /\ scoreCvA \in ScoreTexts
    /\ scoreCvB \in ScoreTexts
    /\ scoreA = <<>>
    /\ scoreB = <<>>
    /\ scorePc = "A"
    /\ SanIdle
    /\ LayIdle
    /\ ClsIdle
    /\ PostIdle
    /\ OptIdle
    /\ ModIdle
    /\ RbIdle
    /\ ConIdle
    /\ WzIdle

\* optimizeCVRuleBased(scoreCvA, scoreJob): keywords and score
ScoreFirst ==
    /\ scorePc = "A"
    /\ scoreA' = RuleBasedKeywords(scoreCvA, scoreJob)
    /\ scorePc' = "B"
    /\ UNCHANGED <<scoreJob, scoreCvA, scoreCvB, scoreB, scoreOthers>>

\* optimizeCVRuleBased(scoreCvB, scoreJob): keywords and score
ScoreSecond ==
    /\ scorePc = "B"
    /\ scoreB' = RuleBasedKeywords(scoreCvB, scoreJob)
    /\ scorePc' = "done"
    /\ UNCHANGED <<scoreJob, scoreCvA, scoreCvB, scoreA, scoreOthers>>

NextScore == ScoreFirst \/ ScoreSecond

SpecScore == InitScore /\ [][NextScore]_vars

(***************************************************************************)
(* Claims about the layout loops                                           *)
(***************************************************************************)

\* C1: every DrawBlock of generatePDF and of createStyledPdf is drawn at a
\* y with marginBottom <= y <= pageHeight - marginTop (50 <= y <= 742),
\* whatever the sequence of records.
C1_BlocksWithinMargins ==
    \A k \in 1..Len(blocks) :
        margin <= blocks[k].y /\ blocks[k].y <= pageHeight - margin

\* C1 witness: a wrapped text was split by a page break: its DrawBlocks lie
\* on two pages, the last ones from the top of the new page.
C1_Witness ==
    /\ Len(blocks) >= 2
    /\ blocks[1].page < blocks[Len(blocks)].page
    /\ blocks[1].y < margin + 40

\* The characters that count as content: white space dropped (a wrap turns
\* a space into a line break), letter case ignored (headers are drawn in
\* upper case).
IsContentChar(c) == c \notin WhiteSpace
ContentOf(text) == ToUpperCase(SelectSeq(text, IsContentChar))

\* The length of the longest common prefix of a[i..] and b[j..], between lo
\* and hi, found by halving.
RECURSIVE CommonPrefix(_, _, _, _, _, _)
CommonPrefix(a, i, b, j, lo, hi) ==
    IF lo >= hi THEN lo
    ELSE LET mid == (lo + hi + 1) \div 2
         IN  IF SubSeq(a, i, i + mid - 1) = SubSeq(b, j, j + mid - 1)
             THEN CommonPrefix(a, i, b, j, mid, hi)
             ELSE CommonPrefix(a, i, b, j, lo, mid - 1)


\* a[i..] appears, in order, in b[j..] (greedy matching, a common run at a
\* time).
RECURSIVE AppearsInOrderFrom(_, _, _, _)
AppearsInOrderFrom(a, i, b, j) ==
    IF i > Len(a) THEN TRUE
    ELSE IF j > Len(b) THEN FALSE
    ELSE LET run == CommonPrefix(a, i, b, j, 0,
                                 Min(Len(a) - i + 1, Len(b) - j + 1))
         IN  IF run > 0 THEN AppearsInOrderFrom(a, i + run, b, j + run)
             ELSE AppearsInOrderFrom(a, i, b, j + 1)

AppearsInOrder(a, b) == AppearsInOrderFrom(a, 1, b, 1)

\* The sanitized text of the record just laid out, and the text drawn for it.
LaidOutText ==
    IF layBackend = "pdflib"
    THEN Sanitized(laySrc.content) \o Sanitized(laySrc.secondary)
    ELSE Trim(sanitizeStyled(laySrc.content))

DrawnText == Concat([k \in 1..Len(blocks) |-> blocks[k].text])

\* C2: no input content is discarded or truncated: all characters of the
\* sanitized text of a line appear, in order, in the text of the DrawBlocks
\* emitted for it, whatever its role and however long it is.
C2_NoContentDiscarded ==
    laySrc.type # "none" =>
        AppearsInOrder(ContentOf(LaidOutText), ContentOf(DrawnText))

\* The same for generatePDF alone, whose drawText wraps and never cuts.
GeneratePdfKeepsContent ==
    layBackend = "pdflib" => C2_NoContentDiscarded

(***************************************************************************)
(* Claims about the classifiers                                            *)
(***************************************************************************)

IsClassifiedLine(e) == e.role # "blank"

\* The classified lines so far, spacing paragraphs left out.
ClassifiedLines == SelectSeq(clsSt.out, IsClassifiedLine)

\* C3: each non-blank input line yields exactly one classified line whose
\* role is in the closed vocabulary: at every point of the loop the
\* classified lines are the non-blank lines read so far, one for one and
\* in input order (fallbackParse, createDocx, renderCV).
C3_OneRolePerLine ==
    clsBackend # "none" =>
        /\ \A k \in 1..Len(ClassifiedLines) : ClassifiedLines[k].role \in Roles
        /\ [k \in 1..Len(ClassifiedLines) |-> ClassifiedLines[k].line]
               = SelectSeq(SubSeq(clsLines, 1, clsIdx), NonBlank)

\* A whole text read: an empty line between two non-blank lines that got
\* different roles, in createDocx (which also pushes spacing paragraphs).
C3_Witness ==
    /\ clsBackend = "createDocx"
    /\ clsIdx = Len(clsLines)
    /\ Len(clsLines) = 3
    /\ clsLines[2] = <<>>
    /\ Len(ClassifiedLines) = 2
    /\ ClassifiedLines[1].role # ClassifiedLines[2].role
    /\ Len(clsSt.out) > 2

\* C10: in a classified document at most one line has the role name, and
\* it is the first non-blank classified line.
C10_NameOnlyFirst ==
    clsBackend # "none" =>
        \A k \in 1..Len(ClassifiedLines) :
            ClassifiedLines[k].role = "name" => k = 1

\* A name followed by another short line that did not become a name.
C10_Witness ==
    /\ clsIdx = Len(clsLines)
    /\ Len(ClassifiedLines) >= 2
    /\ ClassifiedLines[1].role = "name"
    /\ Len(ClassifiedLines[2].line) < 50
    /\ ClassifiedLines[2].role # "name"

(***************************************************************************)
(* Claims about POST /api/generate-pdf-ai                                  *)
(***************************************************************************)

\* parseWithAI has returned to POST.
Classified4Layout == postPc \in {"generate", "layout", "done"} /\ postStatus # 400

\* C4: for any input text, classification followed by layout does not
\* raise and yields a document with at least one page: the route never
\* answers 500, and a document it answers with has a page.
C4_ClassifyLayoutTotal ==
    Classified4Layout =>
        /\ postStatus # 500
        /\ postStatus = 200 => pages >= 1

\* The hint is an array holding a record with no type, with a type outside
\* the vocabulary, or with no content.
MalformedHint(reply) ==
    /\ reply.kind = "response"
    /\ reply.hasContent
    /\ reply.content.wellFormed
    /\ reply.content.tag = "object"
    /\ reply.content.member = "array"
    /\ \E k \in 1..Len(reply.content.items) :
          \/ reply.content.items[k].type \notin Roles
          \/ reply.content.items[k].content = Undefined

\* C4 apart from the hint: unless the hint is malformed, the route never
\* answers 500 and its document has a page.
LayoutTotalWithoutBadHint ==
    ~MalformedHint(aiReply) => C4_ClassifyLayoutTotal

\* C5: a malformed structuring hint is rejected: the sections laid out are
\* those of the heuristic classifier, as with no hint, and the request
\* does not fail.
C5_MalformedHintRejected ==
    (Classified4Layout /\ MalformedHint(aiReply)) =>
        /\ structuredCV = fallbackParse(optimizedText)
        /\ postStatus # 500

\* The model call throws, times out, answers with a content that is not
\* JSON, or with JSON that is not an object holding a sections array.
ModelCallFails(reply) ==
    \/ reply.kind \in {"throws", "timeout"}
    \/ /\ reply.kind = "response"
       /\ \/ ~reply.hasContent
          \/ ~reply.content.wellFormed
          \/ reply.content.tag # "object"
          \/ reply.content.member # "array"

\* C6: when the model call fails so, parseWithAI returns
\* fallbackParse(cvText) and no error reaches the caller.
C6_FallbackOnFailure ==
    (Classified4Layout /\ ModelCallFails(aiReply)) =>
        /\ structuredCV = fallbackParse(optimizedText)
        /\ postStatus # 500

\* A timed-out call on a text of four lines, laid out and answered.
C6_Witness ==
    /\ postPc = "done"
    /\ postStatus = 200
    /\ aiReply.kind = "timeout"
    /\ Len(structuredCV) = 4
    /\ structuredCV[1].type = "name"

(***************************************************************************)
(* Claims about POST /api/optimize                                         *)
(***************************************************************************)

\* C7: when the AI optimization call throws for a request carrying cvText
\* and jobDescription, the handler answers with the rule-based
\* optimizer's result for the same inputs, not with an error.
C7_RuleBasedWhenAiThrows ==
    ( /\ optPc = "done"
      /\ optRequest.wellFormed
      /\ optRequest.cvText # <<>>
      /\ optRequest.jobDescription # <<>>
      /\ apiKeySet
      /\ optAi = "throws" ) =>
        optResponse = Response(200, "optimizeCVRuleBased",
                               optRequest.cvText, optRequest.jobDescription)

(***************************************************************************)
(* Claims about the sanitizers                                             *)
(***************************************************************************)

\* C8: sanitize is idempotent in each backend's sanitizer: sanitizing the
\* sanitized text again gives the same text.
C8_SanitizeIdempotent ==
    sanPc = "twice" => sanTwice = sanOnce

\* C8 witness: an input the sanitizer really changes (a replaced glyph and
\* a stripped code unit) has been sanitized twice.
C8_Witness ==
    /\ sanPc = "twice"
    /\ sanOnce # sanIn
    /\ sanOnce # <<>>
    /\ Chars(sanIn) \cap {8230, 10003, 9656, 183} # {}

\* No C0/C1 control character, no DEL.
IsControl(c) == c < 32 \/ (127 <= c /\ c <= 159)

\* The range each backend's fonts are given: printable ASCII for pdf-lib;
\* printable ASCII, printable Latin-1 and the bullet for pdfkit.
InSafeRange(backend, c) ==
    IF backend = "pdflib" THEN c \in 32..126
    ELSE c \in (32..126) \cup (161..255) \cup {8226}

C11_NameBelowThreshold ==
    clsBackend # "none" =>
        \A k \in 1..Len(ClassifiedLines) :
            ClassifiedLines[k].role = "name" =>
                Len(Trim(ClassifiedLines[k].line)) < 50

\* C11 in createDocx and renderCV, which test the length.
NameBelowThresholdWhereTested ==
    clsBackend \in {"createDocx", "renderCV"} => C11_NameBelowThreshold

\* The rules in the order of the claim; the company line of renderCV
\* (role job_details) is tested with the dated line, between the section
\* header and the bullet.
RuleOrder ==
    << "name", "contact", "section_header", "job_title", "bullet",
       "skill_group", "text" >>

RuleOf(role) == IF role = "job_details" THEN "job_title" ELSE role

\* The condition of one rule of fallbackParse, in the loop state st.
FallbackRuleHolds(rule, st, line) ==
    CASE rule = "name" -> st.isFirstLine
      [] rule = "contact" ->
           /\ Len(st.out) = 1
           /\ (Includes(line, <<64>>) \/ Includes(line, W_linkedin))
      [] rule = "section_header" -> MatchesSectionPattern(line)
      [] rule = "bullet" -> MatchesBullet(line, FallbackBulletMarkers)
      [] rule = "text" -> TRUE
      [] OTHER -> FALSE

\* The condition of one rule of createDocx.
DocxRuleHolds(rule, st, line) ==
    CASE rule = "name" -> st.isFirstLine /\ Len(line) < 50
      [] rule = "contact" ->
           \/ (st.isSecondLine /\ Len(line) < 80)
           \/ Includes(line, <<64>>)
           \/ HasDigitRun(line, 10)
           \/ IncludesCI(line, W_linkedin)
           \/ IncludesCI(line, W_github)
      [] rule = "section_header" -> IsDocxHeader(line)
      [] rule = "job_title" ->
           /\ HasDigitRun(line, 4)
           /\ Len(line) < 120
           /\ (HasSeparator(line) \/ HasDateRange(line))
      [] rule = "bullet" -> line[1] \in {45, 42, 8226}
      [] rule = "text" -> TRUE
      [] OTHER -> FALSE

\* The condition of one rule of renderCV at index idx.
RenderRuleHolds(rule, st, line, nextLine, idx) ==
    CASE rule = "name" -> st.isFirstLine /\ Len(line) < 50
      [] rule = "contact" ->
           st.isContactLine /\ (MatchesContactPattern(line) \/ idx <= 3)
      [] rule = "section_header" -> MatchesSectionPattern(line)
      [] rule = "job_title" ->
           \/ MatchesDatePattern(line)
           \/ /\ ~MatchesBullet(line, RenderBulletMarkers)
              /\ Len(line) < 80
              /\ ~Includes(line, <<46>>)
              /\ st.currentSection \in ExperienceSections
              /\ \/ MatchesDatePattern(nextLine)
                 \/ Includes(line, <<32, 45, 32>>)
                 \/ Includes(line, <<32, 124, 32>>)
      [] rule = "bullet" -> MatchesBullet(line, RenderBulletMarkers)
      [] rule = "skill_group" -> st.currentSection \in SkillsSections
      [] rule = "text" -> TRUE
      [] OTHER -> FALSE

RuleHolds(backend, rule, st, lns, idx) ==
    LET line == Trim(lns[idx + 1])
    IN  CASE backend = "fallbackParse" -> FallbackRuleHolds(rule, st, line)
          [] backend = "createDocx" -> DocxRuleHolds(rule, st, line)
          [] OTHER ->
               RenderRuleHolds(rule, st, line, NextLineOf(lns, idx), idx)

\* RuleOrder's first rule whose condition holds.
FirstRule(backend, st, lns, idx) ==
    LET k == CHOOSE k \in 1..Len(RuleOrder) :
                 /\ RuleHolds(backend, RuleOrder[k], st, lns, idx)
                 /\ \A j \in 1..(k - 1) :
                        ~RuleHolds(backend, RuleOrder[j], st, lns, idx)
    IN  RuleOrder[k]

RolesOf(out) == [k \in 1..Len(out) |-> out[k].role]

\* C13: the text of seven lines (name, address, EXPERIENCE, dated title,
\* dash bullet, EDUCATION, degree line ending in one year) is classified
\* name, contact, section header, job title, bullet with its marker
\* stripped, section header, plain text.
C13_ScenarioRoles ==
    (clsLines = Scenario7 /\ clsIdx = Len(Scenario7)) =>
        /\ RolesOf(ClassifiedLines)
              = << "name", "contact", "section_header", "job_title",
                   "bullet", "section_header", "text" >>
        /\ ClassifiedLines[5].text = T_short

\* C13 in createDocx and renderCV, which have a rule for dated lines.
ScenarioRolesWithTitleRule ==
    clsBackend \in {"createDocx", "renderCV"} => C13_ScenarioRoles

(***************************************************************************)
(* Claims about the match score                                            *)
(***************************************************************************)

\* The vocabulary keywords found in a text.
KeywordSet(text) ==
    LET kws == extractKeywords(ToLowerCase(text))
    IN  {kws[k] : k \in 1..Len(kws)}

\* C14: the match score is round(|matched| / max(|job keywords|, 1) * 100)
\* clamped to 0..100, matched being the job keywords also found in the CV
\* text.
C14_ScoreIsRoundedRatio ==
    scorePc \in {"B", "done"} =>
        scoreA.matchScore =
            Max(0, Min(100,
                RoundPercent(
                    Cardinality(KeywordSet(scoreJob) \cap KeywordSet(scoreCvA)),
                    Max(Cardinality(KeywordSet(scoreJob)), 1))))

\* C15: the score of any text against itself is 100, a text with no
\* vocabulary keyword included.
C15_SelfMatchIs100 ==
    (scorePc \in {"B", "done"} /\ scoreCvA = scoreJob) =>
        scoreA.matchScore = 100

\* What the code does: the score of a text against itself is 100 when the
\* text holds at least one vocabulary keyword, and 10 when it holds none.
SelfMatchByKeywords ==
    (scorePc \in {"B", "done"} /\ scoreCvA = scoreJob) =>
        scoreA.matchScore = IF KeywordSet(scoreJob) # {} THEN 100 ELSE 10

\* C16: for a fixed job description, a CV text whose keywords include
\* those of another gets a score at least as high.
C16_ScoreMonotone ==
    (scorePc = "done" /\ KeywordSet(scoreCvA) \subseteq KeywordSet(scoreCvB)) =>
        scoreA.matchScore <= scoreB.matchScore

\* A CV text with more keywords and a higher score than the other.
C16_Witness ==
    /\ scorePc = "done"
    /\ KeywordSet(scoreCvA) \subseteq KeywordSet(scoreCvB)
    /\ KeywordSet(scoreCvA) # KeywordSet(scoreCvB)
    /\ KeywordSet(scoreCvA) # {}
    /\ scoreA.matchScore < scoreB.matchScore
    /\ scoreB.matchScore < 100

(***************************************************************************)
(* Claims about the word wrap                                              *)
(***************************************************************************)

\* generatePDF draws the section just laid out through drawText.
WrappedByDrawText ==
    /\ layBackend = "pdflib"
    /\ laySrc.type \notin {"none", "name", "contact", "section_header",
                            "job_title", "job_details"}

\* createStyledPdf drew its last line as a bullet: a dash, then the lines.
StyledBulletDrawn ==
    layBackend = "styled" /\ Len(blocks) >= 2 /\ blocks[1].text = <<45>>

\* Block k is a sub-line of a wrapped text (not the bullet glyph or dash).
IsWrappedBlock(k) ==
    \/ WrappedByDrawText /\ (laySrc.type = "bullet" => k > 1)
    \/ /\ layBackend = "styled"
       /\ blocks[k].size = 10
       /\ StyledBulletDrawn => k > 1

\* The width the text of the last record was wrapped into.
AvailableWidth ==
    IF layBackend = "pdflib"
    THEN (IF laySrc.type = "bullet" THEN contentWidth - 16 ELSE contentWidth)
    ELSE (IF StyledBulletDrawn THEN contentWidth - 15 ELSE contentWidth)

\* Block k is wider than the available width: measured (Helvetica) in
\* generatePDF, estimated as length * fontSize * 0.5 in createStyledPdf.
Overflows(k) ==
    IF layBackend = "pdflib"
    THEN WiderThan(blocks[k].text, blocks[k].size, AvailableWidth)
    ELSE Len(blocks[k].text) * blocks[k].size > 2 * AvailableWidth

\* C17: every sub-line produced by the word wrap (drawText in generatePDF,
\* wrapText in createStyledPdf) is no wider than the available width.
C17_WrappedLinesFit ==
    \A k \in 1..Len(blocks) : IsWrappedBlock(k) => ~Overflows(k)

\* What the code does: a sub-line wider than the available width is a
\* single word.
OnlyOneWordOverflows ==
    \A k \in 1..Len(blocks) :
        (IsWrappedBlock(k) /\ Overflows(k)) => 32 \notin Chars(blocks[k].text)

(***************************************************************************)
(* POST /api/generate-pdf: modifyOriginalPdf first, createStyledPdf as the *)
(* fallback of its catch                                                   *)
(***************************************************************************)

\* The index (from 1) of the first occurrence of sub in s, 0 when there is
\* none: what String.prototype.indexOf finds, plus one.
IndexOf(s, sub) ==
    IF Includes(s, sub)
    THEN CHOOSE i \in 1..(Len(s) - Len(sub) + 1) :
            /\ SubSeq(s, i, i + Len(sub) - 1) = sub
            /\ \A j \in 1..(i - 1) : SubSeq(s, j, j + Len(sub) - 1) # sub
    ELSE 0

\* s.replace(pat, rep) with a string pattern: the first occurrence only (the
\* texts of the model hold no '$', so rep is taken literally).
ReplaceFirst(s, pat, rep) ==
    IF ~Includes(s, pat) THEN s
    ELSE LET i == IndexOf(s, pat)
         IN  SubSeq(s, 1, i - 1) \o rep \o SubSeq(s, i + Len(pat), Len(s))

\* One entry of the request's changes (ChangeItem: originalText, newText).
ChangeItem(o, n) == [originalText |-> o, newText |-> n]

\* No originalPdfBase64 in the request.
NoPdf == [given |-> FALSE, loads |-> FALSE, bytes |-> <<>>]

\* An original PDF: whether PDFDocument.load accepts it, and its bytes read
\* as latin1.
Pdf(loads, bytes) == [given |-> TRUE, loads |-> loads, bytes |-> bytes]

\* The document of a response: the bytes modifyOriginalPdf returned (title
\* as set by setTitle, "" when untouched), or the fresh document
\* createStyledPdf draws from a text.
BytesDocument(bytes, title) == [kind |-> "bytes", bytes |-> bytes, title |-> title]
StyledDocument(text) == [kind |-> "styled", text |-> text]

\* The condition of modifyOriginalPdf's loop on one change: both texts
\* present, more than 10 characters, equal lengths.
SameLengthChange(change) ==
    /\ change.originalText # <<>>
    /\ change.newText # <<>>
    /\ Len(change.originalText) > 10
    /\ Len(change.originalText) = Len(change.newText)

\* regex.test(modifiedPdfString): the pattern is the escaped first 50
\* characters, so the test is a literal search.
FoundInPdf(pdfString, change) ==
    Includes(pdfString, Substring0(change.originalText, 50))

\* The body of modifyOriginalPdf's loop for one change, on the pair of
\* modifiedPdfString and replacementsMade.
ApplyChange(pdfString, made, change) ==
    IF SameLengthChange(change) /\ FoundInPdf(pdfString, change)
    THEN [pdfString |-> ReplaceFirst(pdfString,
                                     Substring0(change.originalText, 50),
                                     Substring0(change.newText, 50)),
          made |-> made + 1]
    ELSE [pdfString |-> pdfString, made |-> made]

\* The title modifyOriginalPdf sets when no replacement was made: "CV -
\* Optimized (see text file for changes)".
MetadataTitle == <<67, 86, 32, 45, 32, 79, 112, 116, 105, 109, 105, 122, 101, 100, 32, 40, 115, 101, 101, 32, 116, 101, 120, 116, 32, 102, 105, 108, 101, 32, 102, 111, 114, 32, 99, 104, 97, 110, 103, 101, 115, 41>>

\* What modifyOriginalPdf returns after its loop: the modified bytes when a
\* replacement was made, else the original document saved with a title. It
\* throws on neither path.
ModifyReturn(pdf, pdfString, made) ==
    IF made > 0
    THEN BytesDocument(pdfString, <<>>)
    ELSE BytesDocument(pdf.bytes, MetadataTitle)

\* The requests of the model.
\* "Jane Doe\nBuilt backend pipeline": an optimized text of the same length
GP_sameLength == <<74, 97, 110, 101, 32, 68, 111, 101, 10, 66, 117, 105, 108, 116, 32, 98, 97, 99, 107, 101, 110, 100, 32, 112, 105, 112, 101, 108, 105, 110, 101>>
\* "Jane Doe\nBuilt scalable backend services": a longer optimized text
GP_longer == <<74, 97, 110, 101, 32, 68, 111, 101, 10, 66, 117, 105, 108, 116, 32, 115, 99, 97, 108, 97, 98, 108, 101, 32, 98, 97, 99, 107, 101, 110, 100, 32, 115, 101, 114, 118, 105, 99, 101, 115>>
\* "Built backend services"
GP_bulletOld == <<66, 117, 105, 108, 116, 32, 98, 97, 99, 107, 101, 110, 100, 32, 115, 101, 114, 118, 105, 99, 101, 115>>
\* "Built backend pipeline"
GP_bulletSame == <<66, 117, 105, 108, 116, 32, 98, 97, 99, 107, 101, 110, 100, 32, 112, 105, 112, 101, 108, 105, 110, 101>>
\* "Built scalable backend services"
GP_bulletLonger == <<66, 117, 105, 108, 116, 32, 115, 99, 97, 108, 97, 98, 108, 101, 32, 98, 97, 99, 107, 101, 110, 100, 32, 115, 101, 114, 118, 105, 99, 101, 115>>
\* "Jane Doe"
GP_nameOld == <<74, 97, 110, 101, 32, 68, 111, 101>>
\* "Jane Roe"
GP_nameNew == <<74, 97, 110, 101, 32, 82, 111, 101>>
\* A PDF whose text stream is not compressed
GP_plainBytes == <<37, 80, 68, 70, 45, 49, 46, 52, 32, 66, 84, 32, 40, 74, 97, 110, 101, 32, 68, 111, 101, 41, 32, 84, 106, 32, 40, 66, 117, 105, 108, 116, 32, 98, 97, 99, 107, 101, 110, 100, 32, 115, 101, 114, 118, 105, 99, 101, 115, 41, 32, 84, 106, 32, 69, 84, 32, 37, 37, 69, 79, 70>>
\* A PDF whose text stream is compressed: no text is visible in its bytes
GP_packedBytes == <<37, 80, 68, 70, 45, 49, 46, 52, 32, 115, 116, 114, 101, 97, 109, 32, 120, 94, 75, 42, 74, 45, 46, 78, 77, 32, 101, 110, 100, 115, 116, 114, 101, 97, 109, 32, 37, 37, 69, 79, 70>>
\* Bytes PDFDocument.load rejects
GP_brokenBytes == <<110, 111, 116, 32, 97, 32, 112, 100, 102>>

GenPdfTexts == {<<>>, GP_sameLength, GP_longer}

GenPdfPdfs ==
    {NoPdf, Pdf(TRUE, GP_plainBytes), Pdf(TRUE, GP_packedBytes),
     Pdf(FALSE, GP_brokenBytes)}

GenPdfChanges ==
    { <<>>,
      <<ChangeItem(GP_bulletOld, GP_bulletSame)>>,
      <<ChangeItem(GP_bulletOld, GP_bulletLonger)>>,
      <<ChangeItem(GP_nameOld, GP_nameNew)>>,
      <<ChangeItem(GP_nameOld, GP_nameNew),
        ChangeItem(GP_bulletOld, GP_bulletSame)>> }

InitGenPdf ==
    /\ modPc = "start"
    /\ modRequest \in [optimizedText : GenPdfTexts,
                       originalPdf : GenPdfPdfs,
                       changes : GenPdfChanges]
    /\ modIdx = 0
    /\ modifiedPdfString = <<>>
    /\ replacementsMade = 0
    /\ modResponse = <<>>
    /\ SanIdle
    /\ LayIdle
    /\ ClsIdle
    /\ PostIdle
    /\ OptIdle
    /\ ScoreIdle
    /\ RbIdle
    /\ ConIdle
    /\ WzIdle

\* POST up to the call of modifyOriginalPdf: 400 without optimizedText,
\* createStyledPdf when there is no original PDF.
GenPdfPost ==
    /\ modPc = "start"
    /\ IF modRequest.optimizedText = <<>>
       THEN /\ modResponse' = [status |-> 400, document |-> <<>>]
            /\ modPc' = "done"
       ELSE IF ~modRequest.originalPdf.given
       THEN /\ modResponse' = [status |-> 200,
                               document |-> StyledDocument(modRequest.optimizedText)]
            /\ modPc' = "done"
       ELSE /\ modResponse' = modResponse
            /\ modPc' = "load"
    /\ UNCHANGED <<modRequest, modIdx, modifiedPdfString, replacementsMade>>
    /\ UNCHANGED modOthers

\* modifyOriginalPdf up to its loop: PDFDocument.load throws on bytes it
\* rejects, and POST's catch then calls createStyledPdf.
ModifyLoad ==
    /\ modPc = "load"
    /\ IF modRequest.originalPdf.loads
       THEN /\ modifiedPdfString' = modRequest.originalPdf.bytes
            /\ replacementsMade' = 0
            /\ modIdx' = 0
            /\ modPc' = "loop"
            /\ modResponse' = modResponse
       ELSE /\ modResponse' = [status |-> 200,
                               document |-> StyledDocument(modRequest.optimizedText)]
            /\ modPc' = "done"
            /\ UNCHANGED <<modIdx, modifiedPdfString, replacementsMade>>
    /\ UNCHANGED modRequest
    /\ UNCHANGED modOthers

\* One iteration of modifyOriginalPdf's loop over changes.
ModifyChange ==
    /\ modPc = "loop"
    /\ modIdx < Len(modRequest.changes)
    /\ LET r == ApplyChange(modifiedPdfString, replacementsMade,
                            modRequest.changes[modIdx + 1])
       IN  /\ modifiedPdfString' = r.pdfString
           /\ replacementsMade' = r.made
    /\ modIdx' = modIdx + 1
    /\ UNCHANGED <<modPc, modRequest, modResponse>>
    /\ UNCHANGED modOthers

\* The end of modifyOriginalPdf and of POST: the returned bytes are the
\* response.
ModifyFinish ==
    /\ modPc = "loop"
    /\ modIdx = Len(modRequest.changes)
    /\ modResponse' =
          [status |-> 200,
           document |-> ModifyReturn(modRequest.originalPdf,
                                     modifiedPdfString, replacementsMade)]
    /\ modPc' = "done"
    /\ UNCHANGED <<modRequest, modIdx, modifiedPdfString, replacementsMade>>
    /\ UNCHANGED modOthers

NextGenPdf ==
    \/ GenPdfPost
    \/ ModifyLoad
    \/ ModifyChange
    \/ ModifyFinish

SpecGenPdf == InitGenPdf /\ [][NextGenPdf]_vars

\* The text a document shows: every line of the text is in the bytes, or the
\* document was drawn from the text.
ShowsText(document, text) ==
    \/ document.kind = "styled" /\ document.text = text
    \/ /\ document.kind = "bytes"
       /\ \A k \in 1..Len(Split(text, 10)) :
             Includes(document.bytes, Split(text, 10)[k])

\* In-place modification was infeasible: the PDF did not load, or the loop
\* ended with no replacement made.
ModificationInfeasible ==
    /\ modRequest.originalPdf.given
    /\ \/ ~modRequest.originalPdf.loads
       \/ replacementsMade = 0

\* C18: when in-place modification of the original PDF is infeasible (the
\* PDF does not load, or no change applies as a same-length replacement),
\* the response is the document re-rendered from the optimized text, so the
\* returned document shows the optimized text.
C18_FallsBackToRerender ==
    (modPc = "done" /\ modResponse.status = 200 /\ ModificationInfeasible) =>
        /\ modResponse.document = StyledDocument(modRequest.optimizedText)
        /\ ShowsText(modResponse.document, modRequest.optimizedText)

\* The part of C18 the code keeps: a PDF that does not load is re-rendered
\* from the optimized text.
RerenderWhenLoadFails ==
    (modPc = "done" /\ modResponse.status = 200
        /\ modRequest.originalPdf.given /\ ~modRequest.originalPdf.loads) =>
        modResponse.document = StyledDocument(modRequest.optimizedText)

(***************************************************************************)
(* optimizeCVRuleBased (optimize): sections, their optimizers, and the     *)
(* replacement of each changed section in the CV text                      *)
(***************************************************************************)

\* The alternatives of parseCVSections' six sectionPatterns, each a list of
\* words that \s* joins.
sectionPatterns ==
    {
      << <<112, 114, 111, 102, 101, 115, 115, 105, 111, 110, 97, 108>>, <<115, 117, 109, 109, 97, 114, 121>> >>,  \* professional\s*summary
      << <<115, 117, 109, 109, 97, 114, 121>> >>,  \* summary
      << <<112, 114, 111, 102, 105, 108, 101>> >>,  \* profile
      << <<111, 98, 106, 101, 99, 116, 105, 118, 101>> >>,  \* objective
      << <<97, 98, 111, 117, 116>>, <<109, 101>> >>,  \* about\s*me
      << <<101, 120, 112, 101, 114, 105, 101, 110, 99, 101>> >>,  \* experience
      << <<119, 111, 114, 107>>, <<101, 120, 112, 101, 114, 105, 101, 110, 99, 101>> >>,  \* work\s*experience
      << <<101, 109, 112, 108, 111, 121, 109, 101, 110, 116>>, <<104, 105, 115, 116, 111, 114, 121>> >>,  \* employment\s*history
      << <<112, 114, 111, 102, 101, 115, 115, 105, 111, 110, 97, 108>>, <<101, 120, 112, 101, 114, 105, 101, 110, 99, 101>> >>,  \* professional\s*experience
      << <<101, 100, 117, 99, 97, 116, 105, 111, 110>> >>,  \* education
      << <<97, 99, 97, 100, 101, 109, 105, 99>>, <<98, 97, 99, 107, 103, 114, 111, 117, 110, 100>> >>,  \* academic\s*background
      << <<113, 117, 97, 108, 105, 102, 105, 99, 97, 116, 105, 111, 110, 115>> >>,  \* qualifications
      << <<115, 107, 105, 108, 108, 115>> >>,  \* skills
      << <<116, 101, 99, 104, 110, 105, 99, 97, 108>>, <<115, 107, 105, 108, 108, 115>> >>,  \* technical\s*skills
      << <<99, 111, 114, 101>>, <<99, 111, 109, 112, 101, 116, 101, 110, 99, 105, 101, 115>> >>,  \* core\s*competencies
      << <<101, 120, 112, 101, 114, 116, 105, 115, 101>> >>,  \* expertise
      << <<112, 114, 111, 106, 101, 99, 116, 115>> >>,  \* projects
      << <<107, 101, 121>>, <<112, 114, 111, 106, 101, 99, 116, 115>> >>,  \* key\s*projects
      << <<112, 111, 114, 116, 102, 111, 108, 105, 111>> >>,  \* portfolio
      << <<99, 101, 114, 116, 105, 102, 105, 99, 97, 116, 105, 111, 110, 115>> >>,  \* certifications
      << <<99, 101, 114, 116, 105, 102, 105, 99, 97, 116, 101, 115>> >>,  \* certificates
      << <<99, 114, 101, 100, 101, 110, 116, 105, 97, 108, 115>> >>   \* credentials
    }

\* s starts with the words of ws in turn, any whitespace (or none) between
\* two of them.
RECURSIVE StartsWithWords(_, _)
StartsWithWords(s, ws) ==
    IF ws = <<>> THEN TRUE
    ELSE /\ Len(s) >= Len(Head(ws))
         /\ SubSeq(s, 1, Len(Head(ws))) = Head(ws)
         /\ StartsWithWords(TrimStart(SubSeq(s, Len(Head(ws)) + 1, Len(s))),
                            Tail(ws))

\* Some sectionPattern matches the trimmed line: a prefix test, letter case
\* ignored.
IsSectionLine(line) ==
    \E ws \in sectionPatterns : StartsWithWords(ToLowerCase(line), ws)

\* lines[a] + '\n' + ... + lines[b] + '\n'
RECURSIVE ConcatLines(_, _, _)
ConcatLines(lns, a, b) ==
    IF a > b THEN <<>>
    ELSE lns[a] \o <<10>> \o ConcatLines(lns, a + 1, b)

\* parseCVSections(cvText): a section starts at each line a pattern matches
\* and runs to the line before the next one; its content is its lines, each
\* followed by '\n'. Lines before the first such line are in no section.
\* With no such line the whole text is the one section 'Content'.
W_Content == <<67, 111, 110, 116, 101, 110, 116>>

parseCVSections(cvText) ==
    LET lns == Split(cvText, 10)
        heads == {h \in 1..Len(lns) : IsSectionLine(Trim(lns[h]))}
        n == Cardinality(heads)
        \* the k-th header line; Len(lns) + 1 closes the last section
        head(k) == IF k = n + 1 THEN Len(lns) + 1
                   ELSE CHOOSE h \in heads :
                            Cardinality({g \in heads : g <= h}) = k
    IN  IF n = 0
        THEN << [name |-> W_Content, content |-> cvText, startIndex |-> 0] >>
        ELSE [k \in 1..n |->
                [name |-> Trim(lns[head(k)]),
                 content |-> ConcatLines(lns, head(k), head(k + 1) - 1),
                 startIndex |-> IndexOf(cvText, Trim(lns[head(k)])) - 1]]

\* The elements of a set of numbers in increasing order.
SortedSeq(S) ==
    [k \in 1..Cardinality(S) |->
        CHOOSE i \in S : Cardinality({j \in S : j <= i}) = k]

\* s.replace(new RegExp(pat, 'gi'), rep) for a pattern with no special
\* character: every match, found left to right, letter case ignored.
RECURSIVE ReplaceEveryCI(_, _, _)
ReplaceEveryCI(s, pat, rep) ==
    IF ~IncludesCI(s, pat) THEN s
    ELSE LET i == IndexOf(ToLowerCase(s), pat)
         IN  SubSeq(s, 1, i - 1) \o rep
                \o ReplaceEveryCI(SubSeq(s, i + Len(pat), Len(s)), pat, rep)

\* /\bw\b/i matches at position i of s (w begins and ends with a letter).
WordAt(s, i, w) ==
    /\ i + Len(w) - 1 <= Len(s)
    /\ ToLowerCase(SubSeq(s, i, i + Len(w) - 1)) = w
    /\ WordBoundaryAt(s, i - 1)
    /\ WordBoundaryAt(s, i + Len(w) - 1)

\* s with the len characters at each position of starts (increasing, apart)
\* replaced by rep.
RECURSIVE ReplaceAt(_, _, _, _)
ReplaceAt(s, starts, len, rep) ==
    IF starts = <<>> THEN s
    ELSE LET p == starts[Len(starts)]
         IN  ReplaceAt(SubSeq(s, 1, p - 1),
                       SubSeq(starts, 1, Len(starts) - 1), len, rep)
                \o rep \o SubSeq(s, p + len, Len(s))

\* s.replace(new RegExp('\\bw\\b', 'gi'), rep)
ReplaceWordsCI(s, w, rep) ==
    ReplaceAt(s, SortedSeq({i \in 1..Len(s) : WordAt(s, i, w)}), Len(w), rep)

\* parts.join(sep)
RECURSIVE JoinWith(_, _)
JoinWith(parts, sep) ==
    IF parts = <<>> THEN <<>>
    ELSE IF Len(parts) = 1 THEN parts[1]
    ELSE parts[1] \o sep \o JoinWith(Tail(parts), sep)

\* [...scored].sort((a, b) => b.score - a.score): decreasing score, equal
\* scores in their first order (the sort is stable).
SortByScore(scored) ==
    LET rank(i) == Cardinality({j \in 1..Len(scored) :
                        \/ scored[j].score > scored[i].score
                        \/ scored[j].score = scored[i].score /\ j < i}) + 1
    IN  [p \in 1..Len(scored) |->
            scored[CHOOSE i \in 1..Len(scored) : rank(i) = p]]

\* One entry of an optimizer's changes: its text, and the two verbs of a
\* verb entry (the entries are joined with '; ' into the reason).
ReasonEntry(text, weak, strong) == [text |-> text, weak |-> weak, strong |-> strong]

\* optimizeSummary's replacements, in the order of the object's keys.
replacements ==
    <<
       [weak |-> <<100, 101, 118, 101, 108, 111, 112, 101, 114>>,  \* developer -> software engineer, engineer, developer
        strong |-> << <<115, 111, 102, 116, 119, 97, 114, 101, 32, 101, 110, 103, 105, 110, 101, 101, 114>>,
                    <<101, 110, 103, 105, 110, 101, 101, 114>>,
                    <<100, 101, 118, 101, 108, 111, 112, 101, 114>> >>],
       [weak |-> <<109, 97, 110, 97, 103, 101>>,  \* manage -> lead, oversee, coordinate, manage
        strong |-> << <<108, 101, 97, 100>>,
                    <<111, 118, 101, 114, 115, 101, 101>>,
                    <<99, 111, 111, 114, 100, 105, 110, 97, 116, 101>>,
                    <<109, 97, 110, 97, 103, 101>> >>],
       [weak |-> <<99, 114, 101, 97, 116, 101>>,  \* create -> develop, build, design, create
        strong |-> << <<100, 101, 118, 101, 108, 111, 112>>,
                    <<98, 117, 105, 108, 100>>,
                    <<100, 101, 115, 105, 103, 110>>,
                    <<99, 114, 101, 97, 116, 101>> >>],
       [weak |-> <<104, 101, 108, 112>>,  \* help -> support, assist, enable, help
        strong |-> << <<115, 117, 112, 112, 111, 114, 116>>,
                    <<97, 115, 115, 105, 115, 116>>,
                    <<101, 110, 97, 98, 108, 101>>,
                    <<104, 101, 108, 112>> >>],
       [weak |-> <<119, 111, 114, 107>>,  \* work -> collaborate, partner, work
        strong |-> << <<99, 111, 108, 108, 97, 98, 111, 114, 97, 116, 101>>,
                    <<112, 97, 114, 116, 110, 101, 114>>,
                    <<119, 111, 114, 107>> >>],
       [weak |-> <<109, 97, 107, 101>>,  \* make -> deliver, produce, create, make
        strong |-> << <<100, 101, 108, 105, 118, 101, 114>>,
                    <<112, 114, 111, 100, 117, 99, 101>>,
                    <<99, 114, 101, 97, 116, 101>>,
                    <<109, 97, 107, 101>> >>]
    >>

W_developer == <<100, 101, 118, 101, 108, 111, 112, 101, 114>>
W_engineer == <<101, 110, 103, 105, 110, 101, 101, 114>>
W_softwareEngineer == <<115, 111, 102, 116, 119, 97, 114, 101, 32, 101, 110, 103, 105, 110, 101, 101, 114>>

\* optimizeSummary(content, jobKeywords, matchedKeywords, preferences): the
\* tone rule, then the first replacement whose strong option is in the job
\* keywords and whose weak word stands in the content as a word.
optimizeSummary(content, jobKeywords, tone) ==
    LET lower == ToLowerCase(content)
        lns == Split(content, 10)
        long == {i \in 1..Len(lns) : Len(lns[i]) > 50}
        summaryLine == IF long = {} THEN <<>>
                       ELSE lns[CHOOSE i \in long : \A j \in long : i <= j]
        toneHit == /\ tone = "technical"
                   /\ Includes(summaryLine, W_developer)
                   /\ \E k \in 1..Len(jobKeywords) : jobKeywords[k] = W_engineer
        c1 == IF toneHit
              THEN ReplaceEveryCI(content, W_developer, W_softwareEngineer)
              ELSE content
        inJob(s) == \E k \in 1..Len(jobKeywords) : Includes(jobKeywords[k], s)
        options(r) == SelectSeq(replacements[r].strong, inJob)
        fires(r) == /\ options(r) # <<>>
                    /\ Includes(lower, replacements[r].weak)
                    /\ ~Includes(lower, options(r)[1])
                    /\ \E i \in 1..Len(c1) : WordAt(c1, i, replacements[r].weak)
        fired == {r \in 1..Len(replacements) : fires(r)}
        first == CHOOSE r \in fired : \A q \in fired : r <= q
        toneEntry == IF toneHit
                     THEN << ReasonEntry("Updated terminology to match job description",
                                         W_developer, W_softwareEngineer) >>
                     ELSE <<>>
    IN  IF fired = {}
        THEN [changed |-> toneHit, content |-> c1, reason |-> toneEntry]
        ELSE [changed |-> TRUE,
              content |-> ReplaceWordsCI(c1, replacements[first].weak,
                                         options(first)[1]),
              reason |-> toneEntry \o
                         << ReasonEntry("Enhanced verb",
                                        replacements[first].weak,
                                        options(first)[1]) >>]

\* optimizeExperience's bulletPattern, /^[\s]*[-U+2022*]\s*.+$/gm, on one
\* line: leading whitespace, a marker, and at least one more character. (The
\* texts of the model have no blank line before a bullet and no line that
\* is a marker alone, where the pattern's \s would run across the line
\* break.)
IsExperienceBullet(line) ==
    LET t == TrimStart(line)
    IN  Len(t) >= 2 /\ t[1] \in FallbackBulletMarkers

\* content.match(bulletPattern) || []
ExperienceBullets(content) == SelectSeq(Split(content, 10), IsExperienceBullet)

\* The score of a bullet: how many job keywords its lower-cased text
\* includes.
BulletScore(bullet, jobKeywords) ==
    Cardinality({k \in 1..Len(jobKeywords) :
                    Includes(ToLowerCase(bullet), jobKeywords[k])})

\* The loop for (i...) newContent = newContent.replace(bullets[i],
\* sortedBullets[i].bullet), from index i on: each step rewrites the first
\* occurrence of bullets[i] in the content as the steps before left it.
RECURSIVE ReorderFrom(_, _, _, _)
ReorderFrom(content, bullets, sortedBullets, i) ==
    IF i > Len(bullets) THEN content
    ELSE ReorderFrom(ReplaceFirst(content, bullets[i], sortedBullets[i].bullet),
                     bullets, sortedBullets, i + 1)

\* optimizeExperience's weakVerbs, in the order of the object's keys.
weakVerbs ==
    <<
       [weak |-> <<104, 101, 108, 112, 101, 100>>,  \* helped
        strong |-> <<99, 111, 110, 116, 114, 105, 98, 117, 116, 101, 100, 32, 116, 111>>],  \* contributed to
       [weak |-> <<119, 111, 114, 107, 101, 100, 32, 111, 110>>,  \* worked on
        strong |-> <<100, 101, 118, 101, 108, 111, 112, 101, 100>>],  \* developed
       [weak |-> <<119, 97, 115, 32, 114, 101, 115, 112, 111, 110, 115, 105, 98, 108, 101, 32, 102, 111, 114>>,  \* was responsible for
        strong |-> <<109, 97, 110, 97, 103, 101, 100>>],  \* managed
       [weak |-> <<100, 105, 100>>,  \* did
        strong |-> <<101, 120, 101, 99, 117, 116, 101, 100>>],  \* executed
       [weak |-> <<109, 97, 100, 101>>,  \* made
        strong |-> <<100, 101, 108, 105, 118, 101, 114, 101, 100>>]  \* delivered
    >>

\* optimizeExperience(content, jobKeywords, matchedKeywords, preferences):
\* the bullets reordered by score when that changes their order and the best
\* score is positive, then the first weak verb the content has replaced
\* everywhere.
optimizeExperience(content, jobKeywords) ==
    LET bullets == ExperienceBullets(content)
        scoredBullets == [i \in 1..Len(bullets) |->
                            [bullet |-> bullets[i],
                             score |-> BulletScore(bullets[i], jobKeywords)]]
        sortedBullets == SortByScore(scoredBullets)
        isReordered == \E i \in 1..Len(bullets) :
                          sortedBullets[i].bullet # scoredBullets[i].bullet
        reorder == /\ Len(bullets) > 1
                   /\ isReordered
                   /\ sortedBullets[1].score > 0
        c1 == IF reorder THEN ReorderFrom(content, bullets, sortedBullets, 1)
              ELSE content
        weak == {v \in 1..Len(weakVerbs) :
                    Includes(ToLowerCase(content), weakVerbs[v].weak)}
        first == CHOOSE v \in weak : \A u \in weak : v <= u
        reorderEntry ==
            IF reorder
            THEN << ReasonEntry("Reordered bullet points to prioritize most relevant experience",
                                <<>>, <<>>) >>
            ELSE <<>>
    IN  IF weak = {}
        THEN [changed |-> reorder, content |-> c1, reason |-> reorderEntry]
        ELSE [changed |-> TRUE,
              content |-> ReplaceEveryCI(c1, weakVerbs[first].weak,
                                         weakVerbs[first].strong),
              reason |-> reorderEntry \o
                         << ReasonEntry("Strengthened verb",
                                        weakVerbs[first].weak,
                                        weakVerbs[first].strong) >>]

\* optimizeSkills(content, jobKeywords, matchedKeywords): the first line
\* with more than three comma-separated parts, its skills that match a
\* matched keyword moved to the front.
optimizeSkills(content, matchedKeywords) ==
    LET lns == Split(content, 10)
        comma == {i \in 1..Len(lns) :
                    /\ Trim(lns[i]) # <<>>
                    /\ Includes(lns[i], <<44>>)
                    /\ Len(Split(lns[i], 44)) > 3}
        commaSkillLine == lns[CHOOSE i \in comma : \A j \in comma : i <= j]
        raw == Split(commaSkillLine, 44)
        isMatch(skill) ==
            \E k \in 1..Len(matchedKeywords) :
                \/ Includes(ToLowerCase(skill), matchedKeywords[k])
                \/ Includes(matchedKeywords[k], ToLowerCase(skill))
        scoredSkills == [i \in 1..Len(raw) |->
                            [skill |-> Trim(raw[i]),
                             score |-> IF isMatch(Trim(raw[i])) THEN 1 ELSE 0]]
        hasRelevantSkills == \E i \in 1..Len(raw) : scoredSkills[i].score > 0
        reorderedSkills == SortByScore(scoredSkills)
        newSkillLine == JoinWith([i \in 1..Len(raw) |-> reorderedSkills[i].skill],
                                 <<44, 32>>)
    IN  IF comma # {} /\ hasRelevantSkills /\ newSkillLine # commaSkillLine
        THEN [changed |-> TRUE,
              content |-> ReplaceFirst(content, commaSkillLine, newSkillLine),
              reason |-> << ReasonEntry("Reordered skills to highlight job-relevant competencies first",
                                        <<>>, <<>>) >>]
        ELSE [changed |-> FALSE, content |-> content, reason |-> <<>>]

W_summary == <<115, 117, 109, 109, 97, 114, 121>>
W_profile == <<112, 114, 111, 102, 105, 108, 101>>
W_objective == <<111, 98, 106, 101, 99, 116, 105, 118, 101>>
W_experience == <<101, 120, 112, 101, 114, 105, 101, 110, 99, 101>>
W_employment == <<101, 109, 112, 108, 111, 121, 109, 101, 110, 116>>
W_skill == <<115, 107, 105, 108, 108>>

\* optimizeSection(section, jobKeywords, matchedKeywords, preferences): the
\* optimizer the section's name selects, none for any other name.
SectionOptimization(section, optimization) ==
    [changed |-> optimization.changed,
     newContent |-> IF optimization.changed THEN optimization.content
                    ELSE section.content,
     reason |-> IF optimization.changed THEN optimization.reason ELSE <<>>]

SectionKind(sectionLower) ==
    IF \/ Includes(sectionLower, W_summary)
       \/ Includes(sectionLower, W_profile)
       \/ Includes(sectionLower, W_objective)
    THEN "summary"
    ELSE IF \/ Includes(sectionLower, W_experience)
            \/ Includes(sectionLower, W_employment)
    THEN "experience"
    ELSE IF Includes(sectionLower, W_skill)
    THEN "skills"
    ELSE "other"

optimizeSection(section, jobKeywords, matchedKeywords, tone) ==
    SectionOptimization(section,
        CASE SectionKind(ToLowerCase(section.name)) = "summary" ->
                optimizeSummary(section.content, jobKeywords, tone)
          [] SectionKind(ToLowerCase(section.name)) = "experience" ->
                optimizeExperience(section.content, jobKeywords)
          [] SectionKind(ToLowerCase(section.name)) = "skills" ->
                optimizeSkills(section.content, matchedKeywords)
          [] OTHER ->
                [changed |-> FALSE, content |-> section.content,
                 reason |-> <<>>])

(***************************************************************************)
(* optimizeCVRuleBased as a loop over the sections                         *)
(***************************************************************************)

\* s.substring(0, 200) + (s.length > 200 ? '...' : '')
Excerpt(s) ==
    Substring0(s, 200) \o (IF Len(s) > 200 THEN <<46, 46, 46>> ELSE <<>>)

\* The CV texts of the model: what stands before the first section, an
\* experience section, and the sections after it.
\* "Jane Doe\njane@x.com\n"
RB_contact == <<74, 97, 110, 101, 32, 68, 111, 101, 10, 106, 97, 110, 101, 64, 120, 46, 99, 111, 109, 10>>
\* "Key Experience\n- Helped write docs\n- Built Python API\n"
RB_keyExperience == <<75, 101, 121, 32, 69, 120, 112, 101, 114, 105, 101, 110, 99, 101, 10, 45, 32, 72, 101, 108, 112, 101, 100, 32, 119, 114, 105, 116, 101, 32, 100, 111, 99, 115, 10, 45, 32, 66, 117, 105, 108, 116, 32, 80, 121, 116, 104, 111, 110, 32, 65, 80, 73, 10>>
\* "Experience\n- Helped write docs\n- Built Python API\n"
RB_expVerb == <<69, 120, 112, 101, 114, 105, 101, 110, 99, 101, 10, 45, 32, 72, 101, 108, 112, 101, 100, 32, 119, 114, 105, 116, 101, 32, 100, 111, 99, 115, 10, 45, 32, 66, 117, 105, 108, 116, 32, 80, 121, 116, 104, 111, 110, 32, 65, 80, 73, 10>>
\* "Experience\n- Wrote docs\n- Built Python API\n"
RB_expTwo == <<69, 120, 112, 101, 114, 105, 101, 110, 99, 101, 10, 45, 32, 87, 114, 111, 116, 101, 32, 100, 111, 99, 115, 10, 45, 32, 66, 117, 105, 108, 116, 32, 80, 121, 116, 104, 111, 110, 32, 65, 80, 73, 10>>
\* "Work Experience\n- Used Git\n- Wrote docs\n- Built Python API with SQL\n"
RB_expThree == <<87, 111, 114, 107, 32, 69, 120, 112, 101, 114, 105, 101, 110, 99, 101, 10, 45, 32, 85, 115, 101, 100, 32, 71, 105, 116, 10, 45, 32, 87, 114, 111, 116, 101, 32, 100, 111, 99, 115, 10, 45, 32, 66, 117, 105, 108, 116, 32, 80, 121, 116, 104, 111, 110, 32, 65, 80, 73, 32, 119, 105, 116, 104, 32, 83, 81, 76, 10>>
\* "Skills\nGit, Excel, Python, SQL"
RB_skills == <<83, 107, 105, 108, 108, 115, 10, 71, 105, 116, 44, 32, 69, 120, 99, 101, 108, 44, 32, 80, 121, 116, 104, 111, 110, 44, 32, 83, 81, 76>>
\* "Summary\nI manage teams\nSkills\nExcel, Word, Python, Git"
RB_summarySkills == <<83, 117, 109, 109, 97, 114, 121, 10, 73, 32, 109, 97, 110, 97, 103, 101, 32, 116, 101, 97, 109, 115, 10, 83, 107, 105, 108, 108, 115, 10, 69, 120, 99, 101, 108, 44, 32, 87, 111, 114, 100, 44, 32, 80, 121, 116, 104, 111, 110, 44, 32, 71, 105, 116>>
\* "Education\nBSc"
RB_education == <<69, 100, 117, 99, 97, 116, 105, 111, 110, 10, 66, 83, 99>>
\* "Python and SQL with Git"
RB_jobPython == <<80, 121, 116, 104, 111, 110, 32, 97, 110, 100, 32, 83, 81, 76, 32, 119, 105, 116, 104, 32, 71, 105, 116>>
\* "Leadership role"
RB_jobLead == <<76, 101, 97, 100, 101, 114, 115, 104, 105, 112, 32, 114, 111, 108, 101>>
\* "Sales"
RB_jobSales == <<83, 97, 108, 101, 115>>

RuleBasedCVs ==
    { pre \o exp \o rest :
        pre \in {<<>>, RB_contact, RB_keyExperience},
        exp \in {<<>>, RB_expVerb, RB_expTwo, RB_expThree},
        rest \in {<<>>, RB_skills, RB_summarySkills, RB_education} } \ {<<>>}

RuleBasedJobs == {RB_jobPython, RB_jobLead, RB_jobSales}

\* preferences?.tone
Tones == {"none", "technical"}

InitRuleBased ==
    /\ rbPc = "start"
    /\ rbRequest \in [cvText : RuleBasedCVs,
                      jobDescription : RuleBasedJobs,
                      tone : Tones]
    /\ rbSections = <<>>
    /\ rbIdx = 0
    /\ optimizedCV = <<>>
    /\ rbChanges = <<>>
    /\ rbLast = <<>>
    /\ rbResult = <<>>
    /\ SanIdle
    /\ LayIdle
    /\ ClsIdle
    /\ PostIdle
    /\ OptIdle
    /\ ScoreIdle
    /\ ModIdle
    /\ ConIdle
    /\ WzIdle

\* optimizeCVRuleBased up to its loop: the sections, and optimizedCV = cvText.
RuleBasedStart ==
    /\ rbPc = "start"
    /\ rbSections' = parseCVSections(rbRequest.cvText)
    /\ optimizedCV' = rbRequest.cvText
    /\ rbChanges' = <<>>
    /\ rbIdx' = 0
    /\ rbPc' = "sections"
    /\ UNCHANGED <<rbRequest, rbLast, rbResult>>
    /\ UNCHANGED rbOthers

\* jobKeywords and keywordsMatched of a call of optimizeCVRuleBased.
JobKeywordsOf(request) == extractKeywords(ToLowerCase(request.jobDescription))

MatchedKeywordsOf(request) ==
    KeywordsMatched(extractKeywords(ToLowerCase(request.jobDescription)),
                    extractKeywords(ToLowerCase(request.cvText)))

\* The ChangeItem pushed for a changed section.
ChangeOf(last) ==
    [section |-> last.section.name,
     originalText |-> Excerpt(last.section.content),
     newText |-> Excerpt(last.optimization.newContent),
     reason |-> last.optimization.reason]

\* One iteration of the loop: optimizeSection, and for a changed section
\* the change pushed and optimizedCV.replace(section.content, newContent).
RuleBasedSection ==
    /\ rbPc = "sections"
    /\ rbIdx < Len(rbSections)
    /\ rbLast' = [section |-> rbSections[rbIdx + 1],
                  optimization |->
                      optimizeSection(rbSections[rbIdx + 1],
                                      JobKeywordsOf(rbRequest),
                                      MatchedKeywordsOf(rbRequest),
                                      rbRequest.tone)]
    /\ IF rbLast'.optimization.changed
       THEN /\ rbChanges' = Append(rbChanges, ChangeOf(rbLast'))
            /\ optimizedCV' = ReplaceFirst(optimizedCV, rbLast'.section.content,
                                           rbLast'.optimization.newContent)
       ELSE UNCHANGED <<rbChanges, optimizedCV>>
    /\ rbIdx' = rbIdx + 1
    /\ UNCHANGED <<rbPc, rbRequest, rbSections, rbResult>>
    /\ UNCHANGED rbOthers

\* The return of optimizeCVRuleBased.
RuleBasedReturn ==
    /\ rbPc = "sections"
    /\ rbIdx = Len(rbSections)
    /\ LET kw == RuleBasedKeywords(rbRequest.cvText, rbRequest.jobDescription)
       IN  rbResult' = [optimizedCV |-> optimizedCV,
                        changes |-> rbChanges,
                        matchScore |-> kw.matchScore,
                        keywordsMatched |-> kw.keywordsMatched,
                        keywordsMissing |-> kw.keywordsMissing]
    /\ rbPc' = "done"
    /\ UNCHANGED <<rbRequest, rbSections, rbIdx, optimizedCV, rbChanges, rbLast>>
    /\ UNCHANGED rbOthers

NextRuleBased ==
    \/ RuleBasedStart
    \/ RuleBasedSection
    \/ RuleBasedReturn

SpecRuleBased == InitRuleBased /\ [][NextRuleBased]_vars

\* The lines of the CV before its first recognised section header (all of
\* them when there is none).
LinesBeforeFirstHeader(cvText) ==
    LET lns == Split(cvText, 10)
        heads == {h \in 1..Len(lns) : IsSectionLine(Trim(lns[h]))}
    IN  {i \in 1..Len(lns) : \A h \in heads : i < h}

\* C19: rule-based optimization never alters contact information: every
\* line of the CV before the first recognised section header stands
\* unchanged, at the same position, in optimizedCV.
C19_ContactLinesUnchanged ==
    rbPc = "done" =>
        LET before == Split(rbRequest.cvText, 10)
            after == Split(rbResult.optimizedCV, 10)
        IN  \A i \in LinesBeforeFirstHeader(rbRequest.cvText) :
                i <= Len(after) /\ after[i] = before[i]

\* No text before the first header repeats the content of a section.
NoSectionRepeatedBefore ==
    \A k \in 1..Len(rbSections) :
        IndexOf(rbRequest.cvText, rbSections[k].content) = 0
        \/ \A i \in LinesBeforeFirstHeader(rbRequest.cvText) :
              IndexOf(rbRequest.cvText, rbSections[k].content)
                 > Len(ConcatLines(Split(rbRequest.cvText, 10), 1, i))

\* The part of C19 the code keeps: the lines before the first header are
\* unchanged when no section's content occurs earlier in the text.
ContactLinesUnchangedUnlessRepeated ==
    (rbPc = "done" /\ NoSectionRepeatedBefore) =>
        LET before == Split(rbRequest.cvText, 10)
            after == Split(rbResult.optimizedCV, 10)
        IN  \A i \in LinesBeforeFirstHeader(rbRequest.cvText) :
                i <= Len(after) /\ after[i] = before[i]

\* The last optimizeSection call was on an experience section and reported
\* the reordering of the bullets, and nothing else.
ReorderReported ==
    /\ rbIdx > 0
    /\ rbLast.optimization.changed
    /\ rbLast.optimization.reason =
          << ReasonEntry("Reordered bullet points to prioritize most relevant experience",
                         <<>>, <<>>) >>

\* How many times b stands in the sequence bs.
CountIn(bs, b) == Cardinality({i \in 1..Len(bs) : bs[i] = b})

\* C20: when optimizeExperience reports 'Reordered bullet points to
\* prioritize most relevant experience', the bullets of the new content
\* stand in non-increasing order of job-keyword score and are a permutation
\* of the bullets of the original content.
C20_ReorderedBulletsSorted ==
    ReorderReported =>
        LET jobKeywords == extractKeywords(ToLowerCase(rbRequest.jobDescription))
            old == ExperienceBullets(rbLast.section.content)
            new == ExperienceBullets(rbLast.optimization.newContent)
        IN  /\ \A i \in 1..(Len(new) - 1) :
                  BulletScore(new[i], jobKeywords)
                     >= BulletScore(new[i + 1], jobKeywords)
            /\ Len(new) = Len(old)
            /\ \A i \in 1..Len(old) : CountIn(new, old[i]) = CountIn(old, old[i])

\* The part of C20 the code keeps on the texts of the model: the bullets of
\* the new content are a permutation of the original bullets.
ReorderedBulletsArePermutation ==
    ReorderReported =>
        LET old == ExperienceBullets(rbLast.section.content)
            new == ExperienceBullets(rbLast.optimization.newContent)
        IN  /\ Len(new) = Len(old)
            /\ \A i \in 1..Len(old) : CountIn(new, old[i]) = CountIn(old, old[i])

\* C21: when OPENAI_API_KEY is not configured and the request carries both
\* cvText and jobDescription, POST /api/optimize answers with the rule-based
\* optimizer's result for these inputs, tagged method 'rule-based', and the
\* AI service is never called.
C21_RuleBasedWithoutKey ==
    ( /\ optPc # "idle"
      /\ ~apiKeySet
      /\ optRequest.wellFormed
      /\ optRequest.cvText # <<>>
      /\ optRequest.jobDescription # <<>> ) =>
        /\ aiCalls = 0
        /\ optPc \in {"request", "done"}
        /\ optPc = "done" =>
              /\ optResponse.status = 200
              /\ optResponse.by = "optimizeCVRuleBased"
              /\ optResponse.cvText = optRequest.cvText
              /\ optResponse.jobDescription = optRequest.jobDescription
              /\ optResponse.method = "rule-based"

C21_Witness ==
    /\ optPc = "done"
    /\ ~apiKeySet
    /\ optRequest.wellFormed
    /\ optRequest.cvText # <<>>
    /\ optRequest.jobDescription # <<>>
    /\ optResponse.status = 200
    /\ optResponse.method = "rule-based"

(***************************************************************************)
(* Claims about the order of the render output                             *)
(***************************************************************************)

\* Successive DrawBlocks of bs: the page never decreases, and on one page y
\* never increases.
BlocksOrdered(bs) ==
    \A k \in 1..(Len(bs) - 1) :
        /\ bs[k].page <= bs[k + 1].page
        /\ bs[k].page = bs[k + 1].page => bs[k].y >= bs[k + 1].y

\* The blocks bs lie at or after the cursor (page p, height h) in draw order.
AtOrAfterCursor(bs, p, h) ==
    \A k \in 1..Len(bs) : bs[k].page >= p /\ (bs[k].page = p => bs[k].y <= h)

\* The blocks bs lie at or before the cursor (page p, height h).
AtOrBeforeCursor(bs, p, h) ==
    \A k \in 1..Len(bs) : bs[k].page <= p /\ (bs[k].page = p => bs[k].y >= h)

\* C22: the render output is ordered: the page of successive DrawBlocks
\* never decreases and, on one page, their y never increases. The blocks of
\* one record are ordered and lie between the cursor before the record and
\* the cursor after it, and the cursor itself only moves forward (a later
\* page, or lower on the same page), so the blocks of successive records
\* are ordered too.
C22_RenderOrdered ==
    /\ [](BlocksOrdered(blocks) /\ AtOrBeforeCursor(blocks, pages, y))
    /\ [][ /\ AtOrAfterCursor(blocks', pages, y)
           /\ pages' >= pages
           /\ pages' = pages => y' <= y ]_vars

\* C22 witness: a record was drawn across a page break, the first block of
\* the new page higher than the last block of the page before.
C22_Witness ==
    \E k \in 1..(Len(blocks) - 1) :
        /\ blocks[k].page < blocks[k + 1].page
        /\ blocks[k].y < blocks[k + 1].y
        /\ Len(blocks) >= 3

(***************************************************************************)
(* Claims about records that are empty once sanitized                      *)
(***************************************************************************)

\* The primary text of the record src is empty after the sanitizer of the
\* backend.
EmptyWhenSanitized(backend, src) ==
    /\ src.type # "none"
    /\ src.content # Undefined
    /\ IF backend = "styled"
       THEN Trim(sanitizeStyled(src.content)) = <<>>
       ELSE Sanitized(src.content) = <<>>

\* The record just laid out drew nothing and moved the cursor forward.
BlankAdvance ==
    /\ blocks' = <<>>
    /\ pages' > pages \/ (pages' = pages /\ y' < y)

\* C23: a record whose primary text is empty after sanitization produces no
\* DrawBlock and advances the cursor by a blank vertical spacing, so that
\* the next block is drawn strictly lower.
C23_EmptyLineAdvances ==
    [][ EmptyWhenSanitized(layBackend', laySrc') => BlankAdvance ]_vars

\* The part of C23 the code keeps: createStyledPdf treats a line that is
\* empty after sanitization as a blank line.
StyledEmptyLineAdvances ==
    [][ (layBackend' = "styled" /\ EmptyWhenSanitized(layBackend', laySrc'))
            => BlankAdvance ]_vars

(***************************************************************************)
(* Claims about the section tracker                                        *)
(***************************************************************************)

\* C24: currentSection is empty at the start of every classification run
\* and changes only while a line classified as section_header is processed;
\* a line of any other role, and a blank line, leave it unchanged.
C24_SectionStateFrame ==
    /\ []((clsBackend # "none" /\ clsIdx = 0) => clsSt.currentSection = <<>>)
    /\ [][ clsSt'.currentSection # clsSt.currentSection =>
              /\ Len(clsSt'.out) = Len(clsSt.out) + 1
              /\ clsSt'.out[Len(clsSt'.out)].role = "section_header" ]_vars

\* C24 witness: renderCV is inside a section and has just processed a line
\* that is not a section header.
C24_Witness ==
    /\ clsBackend = "renderCV"
    /\ clsSt.currentSection # <<>>
    /\ clsSt.out # <<>>
    /\ clsSt.out[Len(clsSt.out)].role \in {"bullet", "job_details", "skill_group", "text"}

(***************************************************************************)
(* Two invocations of a renderer, interleaved                              *)
(***************************************************************************)

\* The local state a call starts with: renderCV's and createDocx's flags
\* and output (let isFirstLine = true, ...), generatePDF's page and cursor
\* (let page = pdfDoc.addPage(...), let y = pageHeight - margin).
InvocationStart(backend) ==
    [idx |-> 0,
     st |-> IF backend = "generatePDF"
            THEN [y |-> pageHeight - margin, pages |-> 1, blocks |-> <<>>,
                  raised |-> FALSE]
            ELSE ClassifierStart]

\* The records an invocation's loop runs over: the lines of the text, or
\* for generatePDF the sections fallbackParse gives for it.
InvocationRecords(backend, doc) ==
    IF backend = "generatePDF" THEN fallbackParse(JoinWith(doc, <<10>>))
    ELSE doc

\* One iteration of the invocation's loop on its own local state.
InvocationStep(backend, doc, inv) ==
    [idx |-> inv.idx + 1,
     st |-> CASE backend = "renderCV" -> renderCVLine(inv.st, doc, inv.idx)
              [] backend = "createDocx" -> createDocxLine(inv.st, doc[inv.idx + 1])
              [] OTHER -> generatePDFSection(inv.st,
                              InvocationRecords(backend, doc)[inv.idx + 1])]

\* The state of an invocation that runs alone, after n iterations.
RECURSIVE RunAlone(_, _, _)
RunAlone(backend, doc, n) ==
    IF n = 0 THEN InvocationStart(backend)
    ELSE InvocationStep(backend, doc, RunAlone(backend, doc, n - 1))

\* Locals that are one set for all the calls, as module-level variables
\* would be.
SharedLocals(invs, k) == invs[1]

\* The locals invocation k works on: they are declared inside the function,
\* so each call has its own.
Locals(invs, k) == invs[k]

ConDocs ==
    ClsTexts \cup { <<T_name, T_contact>>,
                    <<CL_long, T_header, CL_bullet, <<>>, T_short>> }

InitConcurrent ==
    /\ conBackend \in {"renderCV", "createDocx", "generatePDF"}
    /\ conDocs \in ConDocs \X ConDocs
    /\ conInv = <<InvocationStart(conBackend), InvocationStart(conBackend)>>
    /\ SanIdle
    /\ LayIdle
    /\ ClsIdle
    /\ PostIdle
    /\ OptIdle
    /\ ScoreIdle
    /\ ModIdle
    /\ RbIdle
    /\ WzIdle

\* Either invocation runs the next iteration of its loop.
ConcurrentStep ==
    /\ \E k \in 1..2 :
         /\ conInv[k].idx < Len(InvocationRecords(conBackend, conDocs[k]))
         /\ conInv' = [conInv EXCEPT
                          ![k] = InvocationStep(conBackend, conDocs[k],
                                                Locals(conInv, k))]
    /\ UNCHANGED <<conBackend, conDocs, conOthers>>

NextConcurrent == ConcurrentStep

SpecConcurrent == InitConcurrent /\ [][NextConcurrent]_vars

ChangeReported ==
    /\ rbPc = "sections"
    /\ Len(rbChanges') = Len(rbChanges) + 1

\* C26: every change optimizeCVRuleBased reports is actually applied: when
\* a change is pushed the section's new content stands in optimizedCV in
\* place of the old, and a result with a non-empty changes list has an
\* optimizedCV that differs from cvText; this also for the last section of
\* a CV whose text does not end with a newline.
C26_ReportedChangesApplied ==
    /\ []((rbPc = "done" /\ rbResult.changes # <<>>)
             => rbResult.optimizedCV # rbRequest.cvText)
    /\ [][ ChangeReported =>
              /\ Includes(optimizedCV', rbLast'.optimization.newContent)
              /\ Len(optimizedCV') - Len(optimizedCV)
                    = Len(rbLast'.optimization.newContent)
                         - Len(rbLast'.section.content) ]_vars

\* The part of C26 the code keeps: a reported change stands in optimizedCV
\* when the section's content, as parseCVSections built it, is found in the
\* text.
FoundSectionChangesApplied ==
    [][ (ChangeReported /\ Includes(optimizedCV, rbLast'.section.content)) =>
           /\ Includes(optimizedCV', rbLast'.optimization.newContent)
           /\ Len(optimizedCV') - Len(optimizedCV)
                 = Len(rbLast'.optimization.newContent)
                      - Len(rbLast'.section.content) ]_vars

\* The content parseCVSections gives the last section is never found in the
\* text: every line, the last one too, is given a newline.
LastSectionNeverFound ==
    (rbPc = "sections" /\ IsSectionLine(Trim(rbSections[Len(rbSections)].name)))
        => ~Includes(rbRequest.cvText, rbSections[Len(rbSections)].content)

(***************************************************************************)
(* The optimizer page (OptimizerPage)                                      *)
(***************************************************************************)

\* null, and a value that is not null.
Null == <<>>
Some(x) == <<x>>

\* canProceedToJob: cvText.trim().length > 100.
MinCvLength == 100
\* canProceedToPreferences: jobDescription.trim().length > 50.
MinJobLength == 50

\* How many fetch calls of the page may be awaiting their answer at once.
MaxCalls == 2

canProceedToJob(w) == Len(Trim(w.cvText)) > MinCvLength
canProceedToPreferences(w) == Len(Trim(w.jobDescription)) > MinJobLength

\* Texts around the two thresholds: one character more than the minimum,
\* and the minimum padded with blanks to a greater length.
WZ_cv == [i \in 1..(MinCvLength + 1) |-> 97]
WZ_cvPadded == [i \in 1..MinCvLength |-> 97] \o <<32, 32>>
WZ_job == [i \in 1..(MinJobLength + 1) |-> 98]
WZ_jobPadded == <<32>> \o [i \in 1..MinJobLength |-> 98] \o <<10>>

WzCvTexts == {<<>>, WZ_cvPadded, WZ_cv}
WzJobTexts == {<<>>, WZ_jobPadded, WZ_job}
\* data.text of an answer of /api/parse-cv, and the data of an answer of
\* /api/optimize
WzParsedTexts == {<<>>, WZ_cv}
WzOptimized == [optimizedCV |-> WZ_cv]

WzParseError == "Failed to parse the CV file. Please try again or paste your CV text directly."
WzOptimizeError == "Failed to optimize CV. Please try again."
WzPdfError == "Failed to generate PDF. Please try downloading as DOCX or text."

\* The useState initial values.
WizardStart ==
    [step |-> "upload", cvFile |-> Null, cvText |-> <<>>, cvData |-> Null,
     jobDescription |-> <<>>, result |-> Null, error |-> "",
     isLoading |-> FALSE]

\* A fetch call of a handler that has not yet resumed: what was sent, and
\* for handleOptimize whether the fetch has settled and how.
Call(kind, phase, cvText, jobDescription) ==
    [kind |-> kind, phase |-> phase, cvText |-> cvText,
     jobDescription |-> jobDescription]

\* The calls with one more, and with one less.
WithCall(cs, c) == cs (+) SetToBag({c})
WithoutCall(cs, c) == cs (-) SetToBag({c})

InitWizard ==
    /\ wizard = WizardStart
    /\ calls = EmptyBag
    /\ SanIdle
    /\ LayIdle
    /\ ClsIdle
    /\ PostIdle
    /\ OptIdle
    /\ ScoreIdle
    /\ ModIdle
    /\ RbIdle
    /\ ConIdle

\* handleFileSelect up to its fetch: FileUpload is rendered on the upload
\* step and is taken to offer the selection while no file is selected.
handleFileSelect ==
    /\ wizard.step = "upload"
    /\ wizard.cvFile = Null
    /\ BagCardinality(calls) < MaxCalls
    /\ wizard' = [wizard EXCEPT !.cvFile = Some("cv.pdf"), !.error = "",
                                !.isLoading = TRUE]
    /\ calls' = WithCall(calls, Call("parse", "sent", <<>>, <<>>))
    /\ UNCHANGED wzOthers

\* handleFileRemove: offered for the selected file.
handleFileRemove ==
    /\ wizard.step = "upload"
    /\ wizard.cvFile # Null
    /\ wizard' = [wizard EXCEPT !.cvFile = Null, !.cvText = <<>>,
                                !.cvData = Null]
    /\ UNCHANGED <<calls, wzOthers>>

\* The CV text area (disabled={isLoading}): setCvText(e.target.value).
EditCvText ==
    /\ wizard.step = "upload"
    /\ ~wizard.isLoading
    /\ \E t \in WzCvTexts \ {wizard.cvText} :
          wizard' = [wizard EXCEPT !.cvText = t]
    /\ UNCHANGED <<calls, wzOthers>>

\* Continue on the upload step (disabled={!canProceedToJob || isLoading}).
ContinueToJob ==
    /\ wizard.step = "upload"
    /\ canProceedToJob(wizard)
    /\ ~wizard.isLoading
    /\ wizard' = [wizard EXCEPT !.step = "job"]
    /\ UNCHANGED <<calls, wzOthers>>

\* The job description text area: setJobDescription(e.target.value).
EditJobDescription ==
    /\ wizard.step = "job"
    /\ \E t \in WzJobTexts \ {wizard.jobDescription} :
          wizard' = [wizard EXCEPT !.jobDescription = t]
    /\ UNCHANGED <<calls, wzOthers>>

\* Back on the job step.
BackToUpload ==
    /\ wizard.step = "job"
    /\ wizard' = [wizard EXCEPT !.step = "upload"]
    /\ UNCHANGED <<calls, wzOthers>>

\* Continue on the job step (disabled={!canProceedToPreferences}).
ContinueToPreferences ==
    /\ wizard.step = "job"
    /\ canProceedToPreferences(wizard)
    /\ wizard' = [wizard EXCEPT !.step = "preferences"]
    /\ UNCHANGED <<calls, wzOthers>>

\* Back on the preferences step.
BackToJob ==
    /\ wizard.step = "preferences"
    /\ wizard' = [wizard EXCEPT !.step = "job"]
    /\ UNCHANGED <<calls, wzOthers>>

\* handleOptimize up to its fetch, from the Optimize CV button of the
\* preferences step (isLoading={isLoading}): the request carries the
\* cvText and jobDescription of the moment.
handleOptimize ==
    /\ wizard.step = "preferences"
    /\ ~wizard.isLoading
    /\ BagCardinality(calls) < MaxCalls
    /\ wizard' = [wizard EXCEPT !.step = "processing", !.isLoading = TRUE,
                                !.error = ""]
    /\ calls' = WithCall(calls, Call("optimize", "sent", wizard.cvText,
                                     wizard.jobDescription))
    /\ UNCHANGED wzOthers

\* handleReset, from Start Over (shown on every step but upload and
\* results) and from Optimize Another CV (shown with the results).
handleReset ==
    /\ \/ wizard.step \notin {"upload", "results"}
       \/ wizard.step = "results" /\ wizard.result # Null
    /\ wizard' = [wizard EXCEPT !.step = "upload", !.cvFile = Null,
                                !.cvText = <<>>, !.cvData = Null,
                                !.jobDescription = <<>>, !.result = Null,
                                !.error = ""]
    /\ UNCHANGED <<calls, wzOthers>>

\* handleDownloadPDF up to its fetch, from the results
\* (isGeneratingPDF={isLoading}).
handleDownloadPDF ==
    /\ wizard.step = "results"
    /\ wizard.result # Null
    /\ ~wizard.isLoading
    /\ BagCardinality(calls) < MaxCalls
    /\ wizard' = [wizard EXCEPT !.isLoading = TRUE, !.error = ""]
    /\ calls' = WithCall(calls, Call("pdf", "sent",
                                     wizard.result[1].optimizedCV, <<>>))
    /\ UNCHANGED wzOthers

\* The fetch of handleOptimize settles: the server answers with an OK
\* response, or the response is not OK or the request fails.
ServerAnswers ==
    /\ \E c \in BagToSet(calls) :
         /\ c.kind = "optimize"
         /\ c.phase = "sent"
         /\ \E phase \in {"ok", "failed"} :
               calls' = WithCall(WithoutCall(calls, c),
                                 [c EXCEPT !.phase = phase])
    /\ UNCHANGED <<wizard, wzOthers>>

\* A finally block that leaves isLoading as it is.
NoFinally(w) == w

\* finally { setIsLoading(false) }
Finally(w) == [w EXCEPT !.isLoading = FALSE]

\* handleFileSelect from its fetch on: the answer is OK and carries the
\* text, or the catch block runs.
ParseResumes ==
    /\ \E c \in BagToSet(calls) :
         /\ c.kind = "parse"
         /\ calls' = WithoutCall(calls, c)
         /\ \/ \E text \in WzParsedTexts :
                  wizard' = Finally([wizard EXCEPT
                                        !.cvText = text,
                                        !.cvData = Some([fileName |-> "cv.pdf"])])
            \/ wizard' = Finally([wizard EXCEPT !.error = WzParseError,
                                                !.cvFile = Null])
    /\ UNCHANGED wzOthers

\* handleOptimize after its fetch has settled; WzOptimized stands for the
\* data of an OK answer.
OptimizeResumes(phase) ==
    /\ \E c \in BagToSet(calls) :
         /\ c.kind = "optimize"
         /\ c.phase = phase
         /\ phase \in {"ok", "failed"}
         /\ calls' = WithoutCall(calls, c)
         /\ wizard' = Finally(
               IF phase = "ok"
               THEN [wizard EXCEPT !.result = Some(WzOptimized),
                                   !.step = "results"]
               ELSE [wizard EXCEPT !.error = WzOptimizeError,
                                   !.step = "preferences"])
    /\ UNCHANGED wzOthers

\* handleDownloadPDF from its fetch on: the file is saved, or the catch
\* block runs.
PdfResumes ==
    /\ \E c \in BagToSet(calls) :
         /\ c.kind = "pdf"
         /\ calls' = WithoutCall(calls, c)
         /\ \/ wizard' = Finally(wizard)
            \/ wizard' = Finally([wizard EXCEPT !.error = WzPdfError])
    /\ UNCHANGED wzOthers

NextWizard ==
    \/ handleFileSelect
    \/ handleFileRemove
    \/ EditCvText
    \/ ContinueToJob
    \/ EditJobDescription
    \/ BackToUpload
    \/ ContinueToPreferences
    \/ BackToJob
    \/ handleOptimize
    \/ handleReset
    \/ handleDownloadPDF
    \/ ServerAnswers
    \/ ParseResumes
    \/ OptimizeResumes("ok")
    \/ OptimizeResumes("failed")
    \/ PdfResumes

SpecWizard == InitWizard /\ [][NextWizard]_vars

\* The step taken is handleOptimize resuming after its fetch, with an OK
\* answer or with a failure.
OptimizeAnswerHandled(phase) ==
    \E c \in BagToSet(calls) :
        /\ c.kind = "optimize"
        /\ c.phase = phase
        /\ calls' = WithoutCall(calls, c)

\* C27: after Start Over (handleReset) the step is 'upload' with result
\* null, and it stays so until the user acts: the answer to an optimize
\* request still in flight never moves the wizard to 'results' or
\* 'preferences' and sets neither result nor error.
C27_ResetIsFinal ==
    [][ (/\ wizard.step = "upload"
         /\ wizard.result = Null
         /\ (OptimizeAnswerHandled("ok") \/ OptimizeAnswerHandled("failed")))
            => /\ wizard'.step = "upload"
               /\ wizard'.result = Null
               /\ wizard'.error = wizard.error ]_vars

\* C28: in every reachable state step = 'results' implies result is not
\* null, and 'results' is entered only from 'processing', by the handling
\* of a successful optimize answer.
C28_ResultsOnlyAfterSuccess ==
    /\ [](wizard.step = "results" => wizard.result # Null)
    /\ [][ (wizard.step # "results" /\ wizard'.step = "results")
              => /\ wizard.step = "processing"
                 /\ OptimizeAnswerHandled("ok") ]_vars

\* The part of C28 the code keeps: on the results step there is a result,
\* and the step is entered only by the handling of a successful optimize
\* answer.
ResultsHaveResult ==
    /\ [](wizard.step = "results" => wizard.result # Null)
    /\ [][ (wizard.step # "results" /\ wizard'.step = "results")
              => OptimizeAnswerHandled("ok") ]_vars

\* C29: an optimize request is sent (the step becomes 'processing') only
\* when at that moment cvText.trim().length > 100 and
\* jobDescription.trim().length > 50, under any interleaving of file
\* selection, removal, parse answers, text edits and navigation.
C29_OptimizeNeedsBothTexts ==
    [][ (wizard.step # "processing" /\ wizard'.step = "processing")
           => /\ canProceedToJob(wizard)
              /\ canProceedToPreferences(wizard) ]_vars

\* The part of C29 the code keeps: the two Continue buttons act only on a
\* text that is long enough.
ContinueNeedsText ==
    [][ /\ (wizard.step = "upload" /\ wizard'.step = "job")
           => canProceedToJob(wizard)
        /\ (wizard.step = "job" /\ wizard'.step = "preferences" /\ calls' = calls)
           => canProceedToPreferences(wizard) ]_vars

\* The event loop runs the continuation of a handler whose fetch has
\* settled: handleOptimize resumes after its await.
SpecWizardLive ==
    /\ InitWizard
    /\ [][NextWizard]_vars
    /\ \A phase \in {"ok", "failed"} : WF_vars(OptimizeResumes(phase))

\* An optimize call whose fetch has settled with the given outcome and
\* whose handler has not yet resumed.
OptimizeAnswered(phase) ==
    \E c \in BagToSet(calls) : c.kind = "optimize" /\ c.phase = phase

\* C30: once handleOptimize has started and the server answers or the
\* request fails, the wizard eventually leaves 'processing' with isLoading
\* false: after a successful answer the step is 'results' with result set,
\* after a response that is not OK or a thrown error the step is
\* 'preferences' with a non-empty error and result unchanged.
C30_OptimizeSettles ==
    /\ OptimizeAnswered("ok") ~>
          (/\ wizard.step = "results"
           /\ wizard.result # Null
           /\ ~wizard.isLoading)
    /\ OptimizeAnswered("failed") ~>
          (/\ wizard.step = "preferences"
           /\ wizard.error # ""
           /\ ~wizard.isLoading)
    /\ [][ /\ OptimizeAnswerHandled("ok")
              => /\ wizard'.step = "results"
                 /\ wizard'.result # Null
                 /\ ~wizard'.isLoading
           /\ OptimizeAnswerHandled("failed")
              => /\ wizard'.step = "preferences"
                 /\ wizard'.error # ""
                 /\ wizard'.result = wizard.result
                 /\ ~wizard'.isLoading ]_vars

\* C30 witness: the answer to the only optimize request was handled: the
\* results are shown, nothing is loading and no call is in flight.
C30_Witness ==
    /\ wizard # <<>>
    /\ wizard.step = "results"
    /\ wizard.result = Some(WzOptimized)
    /\ wizard.error = ""
    /\ ~wizard.isLoading
    /\ calls = EmptyBag

=============================================================================
